---------------------------- MODULE Spec2Model ----------------------------
(***************************************************************************)
(* A model of the coreMQTT (MQTT 5.0) serializer: the Variable Byte        *)
(* Integer codec, the packet size calculators and serializers, the packet  *)
(* deserializers and the property builder.  Bytes are naturals in 0..255,  *)
(* buffers are sequences of bytes (C index i is sequence index i + 1).     *)
(***************************************************************************)
EXTENDS Integers, Sequences, FiniteSets, TLC

(***************************************************************************)
(* Status codes (MQTTStatus_t).                                            *)
(***************************************************************************)
MQTTSuccess == "MQTTSuccess"
MQTTBadParameter == "MQTTBadParameter"
MQTTNoMemory == "MQTTNoMemory"
MQTTBadResponse == "MQTTBadResponse"
MQTTServerRefused == "MQTTServerRefused"
MQTTNoDataAvailable == "MQTTNoDataAvailable"
MQTTRecvFailed == "MQTTRecvFailed"
MQTTNeedMoreBytes == "MQTTNeedMoreBytes"

(***************************************************************************)
(* Program constants.                                                      *)
(***************************************************************************)
MQTT_MAX_REMAINING_LENGTH == 268435455
MQTT_REMAINING_LENGTH_INVALID == 268435456

MQTT_PACKET_TYPE_CONNECT == 16
MQTT_PACKET_TYPE_CONNACK == 32
MQTT_PACKET_TYPE_PUBLISH == 48
MQTT_PACKET_TYPE_PUBACK == 64
MQTT_PACKET_TYPE_PUBREC == 80
MQTT_PACKET_TYPE_PUBREL == 98
MQTT_PACKET_TYPE_PUBCOMP == 112
MQTT_PACKET_TYPE_SUBSCRIBE == 130
MQTT_PACKET_TYPE_SUBACK == 144
MQTT_PACKET_TYPE_UNSUBSCRIBE == 162
MQTT_PACKET_TYPE_UNSUBACK == 176
MQTT_PACKET_TYPE_PINGREQ == 192
MQTT_PACKET_TYPE_PINGRESP == 208
MQTT_PACKET_TYPE_DISCONNECT == 224

(***************************************************************************)
(* Bounds of the model.                                                    *)
(***************************************************************************)
MaxMant == 2
MaxVbiLen == 4
MaxSubscriptions == 2
MaxBufferSize == 512

(* Packet type bytes the peer may send: CONNACK, PUBLISH with QoS 1,       *)
(* PUBREL with and without its flag bit, DISCONNECT and AUTH; PUBACK,      *)
(* PUBREC, PUBCOMP, SUBACK, UNSUBACK and PINGRESP; and bytes no server     *)
(* sends: the reserved type 0, CONNECT and SUBSCRIBE.                      *)
PacketTypeSamples == {32, 50, 98, 96, 224, 240, 64, 80, 112, 144, 176, 208, 0, 16, 130}

(* A value a failed call leaves in an output parameter it never wrote.     *)
Unset == 0 - 1

(* The bytes test sequences are built from: both values of bit 7, with     *)
(* the low seven bits all clear, mixed and all set.                        *)
ByteSamples == {0, 1, 127, 128, 129, 255}

RECURSIVE Pow128(_)
Pow128(e) == IF e = 0 THEN 1 ELSE 128 * Pow128(e - 1)

(* Values around every size boundary of the Variable Byte Integer.         *)
VbiValues ==
    { v \in { m * Pow128(e) + d : m \in 0..MaxMant, e \in 0..3, d \in {-1, 0, 1} }
          \cup { MQTT_MAX_REMAINING_LENGTH } :
      v >= 0 /\ v <= MQTT_MAX_REMAINING_LENGTH }

RECURSIVE SeqsUpTo(_, _)
SeqsUpTo(S, n) ==
    IF n = 0 THEN { <<>> }
    ELSE LET shorter == SeqsUpTo(S, n - 1)
         IN shorter \cup { Append(s, b) : s \in { t \in shorter : Len(t) = n - 1 }, b \in S }

VbiInputs == SeqsUpTo(ByteSamples, MaxVbiLen)

(***************************************************************************)
(* Variable Byte Integer: size, encoder, decoders.                         *)
(***************************************************************************)
remainingLengthEncodedSize(length) ==
    IF length < 128 THEN 1
    ELSE IF length < 16384 THEN 2
    ELSE IF length < 2097152 THEN 3
    ELSE 4

variableLengthEncodedSize(length) ==
    IF length < 128 THEN 1
    ELSE IF length < 16384 THEN 2
    ELSE IF length < 2097152 THEN 3
    ELSE 4

RECURSIVE encodeRemainingLength_NoContinuation(_)
encodeRemainingLength_NoContinuation(length) ==
    LET lengthEncodedByte == length % 128
        remainingLength == length \div 128
    IN IF remainingLength > 0
       THEN <<lengthEncodedByte>> \o encodeRemainingLength_NoContinuation(remainingLength)
       ELSE <<lengthEncodedByte>>

(* do { byte = n % 128; n = n / 128; if( n > 0 ) byte |= 0x80; emit }      *)
(* while( n > 0 ): the bytes written at pDestination.                      *)
RECURSIVE encodeRemainingLength(_)
encodeRemainingLength(length) ==
    LET lengthEncodedByte == length % 128
        remainingLength == length \div 128
    IN IF remainingLength > 0
       THEN <<lengthEncodedByte + 128>> \o encodeRemainingLength(remainingLength)
       ELSE <<lengthEncodedByte>>

RECURSIVE encodeVariableLength(_)
encodeVariableLength(length) ==
    LET lengthEncodedByte == length % 128
        remainingLength == length \div 128
    IN IF remainingLength > 0
       THEN <<lengthEncodedByte + 128>> \o encodeVariableLength(remainingLength)
       ELSE <<lengthEncodedByte>>

(* The do-while loop of decodeVariableLength, one iteration per unfolding. *)
RECURSIVE decodeVariableLengthLoop(_, _, _, _, _)
decodeVariableLengthLoop(pBuffer, localBufferLength, bytesDecoded, multiplier, remainingLength) ==
    IF multiplier > 2097152
    THEN [status |-> MQTTBadResponse, remainingLength |-> MQTT_REMAINING_LENGTH_INVALID,
          bytesDecoded |-> bytesDecoded]
    ELSE IF localBufferLength > 0
    THEN LET encodedByte == pBuffer[bytesDecoded + 1]
             rl == remainingLength + (encodedByte % 128) * multiplier
         IN IF encodedByte >= 128
            THEN decodeVariableLengthLoop(pBuffer, localBufferLength - 1, bytesDecoded + 1,
                                          multiplier * 128, rl)
            ELSE [status |-> MQTTSuccess, remainingLength |-> rl,
                  bytesDecoded |-> bytesDecoded + 1]
    ELSE [status |-> MQTTBadResponse, remainingLength |-> remainingLength,
          bytesDecoded |-> bytesDecoded]

decodeVariableLength_NoSizeCheck(pBuffer, bufferLength) ==
    LET r == decodeVariableLengthLoop(pBuffer, bufferLength, 0, 1, 0)
    IN IF r.status = MQTTSuccess
       THEN [status |-> MQTTSuccess, length |-> r.remainingLength, bytesDecoded |-> r.bytesDecoded]
       ELSE [status |-> r.status, length |-> Unset, bytesDecoded |-> r.bytesDecoded]

(* The in-buffer decoder of the serializer: status, *pLength and the       *)
(* number of bytes read from pBuffer (indices 0 .. bytesDecoded - 1).      *)
decodeVariableLength(pBuffer, bufferLength) ==
    LET r == decodeVariableLengthLoop(pBuffer, bufferLength, 0, 1, 0)
    IN IF r.status = MQTTSuccess
       THEN IF r.bytesDecoded # variableLengthEncodedSize(r.remainingLength)
            THEN [status |-> MQTTBadResponse, length |-> Unset, bytesDecoded |-> r.bytesDecoded]
            ELSE [status |-> MQTTSuccess, length |-> r.remainingLength,
                  bytesDecoded |-> r.bytesDecoded]
       ELSE [status |-> r.status, length |-> Unset, bytesDecoded |-> r.bytesDecoded]

(* The copy of the decoder in the property reader's file: every exit       *)
(* through the break sets MQTTBadResponse.  Its 32-bit accumulator never   *)
(* wraps: at most four 7-bit groups are summed, less than 2^28 in all.     *)
RECURSIVE decodeVariableLengthLoop_private(_, _, _, _, _)
decodeVariableLengthLoop_private(pBuffer, localBufferLength, bytesDecoded, multiplier, remainingLength) ==
    IF multiplier > 2097152
    THEN [status |-> MQTTBadResponse, remainingLength |-> MQTT_REMAINING_LENGTH_INVALID,
          bytesDecoded |-> bytesDecoded]
    ELSE IF localBufferLength > 0
    THEN LET encodedByte == pBuffer[bytesDecoded + 1]
             rl == remainingLength + (encodedByte % 128) * multiplier
         IN IF rl >= MQTT_REMAINING_LENGTH_INVALID
            THEN [status |-> MQTTBadResponse, remainingLength |-> rl,
                  bytesDecoded |-> bytesDecoded + 1]
            ELSE IF encodedByte >= 128
            THEN decodeVariableLengthLoop_private(pBuffer, localBufferLength - 1,
                                                  bytesDecoded + 1, multiplier * 128, rl)
            ELSE [status |-> MQTTSuccess, remainingLength |-> rl,
                  bytesDecoded |-> bytesDecoded + 1]
    ELSE [status |-> MQTTBadResponse, remainingLength |-> remainingLength,
          bytesDecoded |-> bytesDecoded]

decodeVariableLength_private(pBuffer, bufferLength) ==
    LET r == decodeVariableLengthLoop_private(pBuffer, bufferLength, 0, 1, 0)
    IN IF r.status = MQTTSuccess
       THEN IF r.bytesDecoded # variableLengthEncodedSize(r.remainingLength)
            THEN [status |-> MQTTBadResponse, length |-> Unset, bytesDecoded |-> r.bytesDecoded]
            ELSE [status |-> MQTTSuccess, length |-> r.remainingLength,
                  bytesDecoded |-> r.bytesDecoded]
       ELSE [status |-> r.status, length |-> Unset, bytesDecoded |-> r.bytesDecoded]

(* The transport: recvFunc( ctx, &byte, 1 ) when pos bytes of the stream   *)
(* were consumed returns 1 and the next byte, or, the stream being         *)
(* exhausted, tail (0: no data, -1: transport error).                      *)
recvFunc(stream, tail, pos) ==
    IF pos < Len(stream)
    THEN [bytesReceived |-> 1, byte |-> stream[pos + 1]]
    ELSE [bytesReceived |-> tail, byte |-> 0]

(* The pull-mode decoder; pos counts the bytes already taken from the      *)
(* transport (the packet type byte is one of them).                        *)
RECURSIVE getRemainingLengthLoop(_, _, _, _, _, _)
getRemainingLengthLoop(stream, tail, pos, bytesDecoded, multiplier, remainingLength) ==
    IF multiplier > 2097152
    THEN [remainingLength |-> MQTT_REMAINING_LENGTH_INVALID, bytesDecoded |-> bytesDecoded]
    ELSE LET r == recvFunc(stream, tail, pos)
         IN IF r.bytesReceived = 1
            THEN LET rl == remainingLength + (r.byte % 128) * multiplier
                 IN IF r.byte >= 128
                    THEN getRemainingLengthLoop(stream, tail, pos + 1, bytesDecoded + 1,
                                                multiplier * 128, rl)
                    ELSE [remainingLength |-> rl, bytesDecoded |-> bytesDecoded + 1]
            ELSE [remainingLength |-> MQTT_REMAINING_LENGTH_INVALID,
                  bytesDecoded |-> bytesDecoded]

getRemainingLength(stream, tail, pos) ==
    LET r == getRemainingLengthLoop(stream, tail, pos, 0, 1, 0)
    IN IF r.remainingLength # MQTT_REMAINING_LENGTH_INVALID
          /\ r.bytesDecoded # remainingLengthEncodedSize(r.remainingLength)
       THEN MQTT_REMAINING_LENGTH_INVALID
       ELSE r.remainingLength

(* The buffered-mode decoder: index is *pIndex, the number of bytes the    *)
(* caller has stored in pBuffer so far; pBuffer[ 0 ] is the packet type.   *)
RECURSIVE processRemainingLengthLoop(_, _, _, _, _)
processRemainingLengthLoop(pBuffer, index, bytesDecoded, multiplier, remainingLength) ==
    IF multiplier > 2097152
    THEN [status |-> MQTTBadResponse, remainingLength |-> MQTT_REMAINING_LENGTH_INVALID,
          bytesDecoded |-> bytesDecoded]
    ELSE IF index > bytesDecoded + 1
    THEN LET encodedByte == pBuffer[bytesDecoded + 2]
             rl == remainingLength + (encodedByte % 128) * multiplier
         IN IF encodedByte >= 128
            THEN processRemainingLengthLoop(pBuffer, index, bytesDecoded + 1,
                                            multiplier * 128, rl)
            ELSE [status |-> MQTTSuccess, remainingLength |-> rl,
                  bytesDecoded |-> bytesDecoded + 1]
    ELSE [status |-> MQTTNeedMoreBytes, remainingLength |-> remainingLength,
          bytesDecoded |-> bytesDecoded]

processRemainingLength(pBuffer, index) ==
    LET r == processRemainingLengthLoop(pBuffer, index, 0, 1, 0)
    IN IF r.status = MQTTSuccess
       THEN IF r.bytesDecoded # remainingLengthEncodedSize(r.remainingLength)
            THEN [status |-> MQTTBadResponse, remainingLength |-> Unset, headerLength |-> Unset]
            ELSE [status |-> MQTTSuccess, remainingLength |-> r.remainingLength,
                  headerLength |-> r.bytesDecoded + 1]
       ELSE [status |-> r.status, remainingLength |-> Unset, headerLength |-> Unset]

(* packetType & 0xF0 *)
HighNibble(packetType) == (packetType \div 16) * 16

(* ( byte & ( 1 << position ) ) != 0 *)
BitSet(byte, position) == (byte \div (2 ^ position)) % 2 = 1

incomingPacketValid(packetType) ==
    IF HighNibble(packetType) \in
           { MQTT_PACKET_TYPE_CONNACK, MQTT_PACKET_TYPE_PUBLISH, MQTT_PACKET_TYPE_PUBACK,
             MQTT_PACKET_TYPE_PUBREC, MQTT_PACKET_TYPE_PUBCOMP, MQTT_PACKET_TYPE_SUBACK,
             MQTT_PACKET_TYPE_UNSUBACK, MQTT_PACKET_TYPE_PINGRESP }
    THEN TRUE
    ELSE IF HighNibble(packetType) = HighNibble(MQTT_PACKET_TYPE_PUBREL)
    THEN BitSet(packetType, 1)
    ELSE FALSE

(* pIncomingPacket is never NULL here. The stream is what the transport    *)
(* will deliver, first byte first.                                         *)
MQTT_GetIncomingPacketTypeAndLength(stream, tail) ==
    LET first == recvFunc(stream, tail, 0)
    IN IF first.bytesReceived = 1
       THEN IF incomingPacketValid(first.byte)
            THEN LET rl == getRemainingLength(stream, tail, 1)
                 IN IF rl = MQTT_REMAINING_LENGTH_INVALID
                    THEN [status |-> MQTTBadResponse, type |-> first.byte,
                          remainingLength |-> rl]
                    ELSE [status |-> MQTTSuccess, type |-> first.byte,
                          remainingLength |-> rl]
            ELSE [status |-> MQTTBadResponse, type |-> first.byte, remainingLength |-> Unset]
       ELSE IF first.bytesReceived = 0
       THEN [status |-> MQTTNoDataAvailable, type |-> Unset, remainingLength |-> Unset]
       ELSE [status |-> MQTTRecvFailed, type |-> Unset, remainingLength |-> Unset]

MQTT_ProcessIncomingPacketTypeAndLength(pBuffer, index) ==
    IF index < 1
    THEN [status |-> MQTTNoDataAvailable, type |-> Unset, remainingLength |-> Unset,
          headerLength |-> Unset]
    ELSE IF incomingPacketValid(pBuffer[1])
    THEN LET r == processRemainingLength(pBuffer, index)
         IN [status |-> r.status, type |-> pBuffer[1],
             remainingLength |-> r.remainingLength, headerLength |-> r.headerLength]
    ELSE [status |-> MQTTBadResponse, type |-> pBuffer[1], remainingLength |-> Unset,
          headerLength |-> Unset]

(***************************************************************************)
(* Strings and buffers handed to the library.  A pointer is NULL or points *)
(* at bytes; the length travels beside it, as in the C structures.  The    *)
(* bytes a pointer points at are its data repeated as far as the length    *)
(* says, so that a long payload needs no long literal.                     *)
(***************************************************************************)
NullPtr == [null |-> TRUE, data |-> <<>>]
Ptr(data) == [null |-> FALSE, data |-> data]

(* The first length bytes at pSource (memcpy's source).                    *)
BytesAt(pSource, length) ==
    [i \in 1..length |-> pSource.data[((i - 1) % Len(pSource.data)) + 1]]

(* length bytes of a fresh caller buffer that nothing wrote.               *)
Untouched(length) == [i \in 1..length |-> 0]

UINT16_HIGH_BYTE(x) == (x \div 256) % 256
UINT16_LOW_BYTE(x) == x % 256

(* encodeString: two length bytes, then the bytes of pSource (a NULL       *)
(* source leaves the destination bytes as they were).                      *)
encodeString(pSource, sourceLength) ==
    <<UINT16_HIGH_BYTE(sourceLength), UINT16_LOW_BYTE(sourceLength)>>
        \o (IF pSource.null THEN Untouched(sourceLength)
            ELSE BytesAt(pSource, sourceLength))

(* ( 1 << position ) when the condition holds, else no bit.                *)
Flag(condition, position) == IF condition THEN 2 ^ position ELSE 0

(***************************************************************************)
(* CONNECT.                                                                *)
(***************************************************************************)
MQTT_PACKET_CONNECT_HEADER_SIZE == 10
MQTT_VERSION_5 == 5
MQTT_CONNECT_FLAG_CLEAN == 1
MQTT_CONNECT_FLAG_WILL == 2
MQTT_CONNECT_FLAG_WILL_QOS1 == 3
MQTT_CONNECT_FLAG_WILL_QOS2 == 4
MQTT_CONNECT_FLAG_WILL_RETAIN == 5
MQTT_CONNECT_FLAG_PASSWORD == 6
MQTT_CONNECT_FLAG_USERNAME == 7
UINT16_MAX == 65535

(* A NULL MQTTPublishInfo_t * or MQTTPropBuilder_t *.                      *)
NullWill == [null |-> TRUE]
NullBuilder == [null |-> TRUE]

(* pBuilder != NULL && pBuilder->pBuffer != NULL ? currentIndex : 0        *)
PropertyLengthOf(pBuilder) ==
    IF ~pBuilder.null /\ ~pBuilder.pBuffer.null THEN pBuilder.currentIndex ELSE 0

MQTT_GetConnectPacketSize(pConnectInfo, pWillInfo, pConnectProperties, pWillProperties) ==
    LET propertyLength == PropertyLengthOf(pConnectProperties)
        willPropertyLength == PropertyLengthOf(pWillProperties)
        emptyId == \/ pConnectInfo.pClientIdentifier.null
                   \/ pConnectInfo.pClientIdentifier.data = <<>>
                   \/ pConnectInfo.pClientIdentifier.data[1] = 0
        remainingLength ==
            MQTT_PACKET_CONNECT_HEADER_SIZE
            + propertyLength + variableLengthEncodedSize(propertyLength)
            + pConnectInfo.clientIdentifierLength + 2
            + (IF ~pWillInfo.null
               THEN willPropertyLength + variableLengthEncodedSize(willPropertyLength)
                    + pWillInfo.topicNameLength + 2 + pWillInfo.payloadLength + 2
               ELSE 0)
            + (IF ~pConnectInfo.pUserName.null THEN pConnectInfo.userNameLength + 2 ELSE 0)
            + (IF ~pConnectInfo.pPassword.null THEN pConnectInfo.passwordLength + 2 ELSE 0)
        failed == [status |-> MQTTBadParameter, remainingLength |-> Unset,
                   packetSize |-> Unset]
    IN IF (pConnectInfo.clientIdentifierLength = 0) # emptyId
       THEN failed
       ELSE IF ~pWillInfo.null /\ pWillInfo.payloadLength > UINT16_MAX
       THEN failed
       ELSE IF remainingLength > MQTT_MAX_REMAINING_LENGTH
       THEN failed
       ELSE [status |-> MQTTSuccess, remainingLength |-> remainingLength,
             packetSize |-> remainingLength + 1 + variableLengthEncodedSize(remainingLength)]

(* The bytes MQTT_SerializeConnectFixedHeader writes from pIndex on.       *)
MQTT_SerializeConnectFixedHeader(pConnectInfo, pWillInfo, remainingLength) ==
    LET connectFlags ==
            Flag(pConnectInfo.cleanSession, MQTT_CONNECT_FLAG_CLEAN)
            + Flag(~pConnectInfo.pUserName.null, MQTT_CONNECT_FLAG_USERNAME)
            + Flag(~pConnectInfo.pPassword.null, MQTT_CONNECT_FLAG_PASSWORD)
            + (IF ~pWillInfo.null
               THEN Flag(TRUE, MQTT_CONNECT_FLAG_WILL)
                    + Flag(pWillInfo.qos = 1, MQTT_CONNECT_FLAG_WILL_QOS1)
                    + Flag(pWillInfo.qos = 2, MQTT_CONNECT_FLAG_WILL_QOS2)
                    + Flag(pWillInfo.retain, MQTT_CONNECT_FLAG_WILL_RETAIN)
               ELSE 0)
    IN <<MQTT_PACKET_TYPE_CONNECT>>
       \o encodeVariableLength(remainingLength)
       \o encodeString(Ptr(<<77, 81, 84, 84>>), 4)
       \o <<MQTT_VERSION_5, connectFlags>>
       \o <<UINT16_HIGH_BYTE(pConnectInfo.keepAliveSeconds),
            UINT16_LOW_BYTE(pConnectInfo.keepAliveSeconds)>>

(* The bytes serializeConnectPacket writes from pFixedBuffer->pBuffer on.  *)
serializeConnectPacket(pConnectInfo, pWillInfo, remainingLength) ==
    MQTT_SerializeConnectFixedHeader(pConnectInfo, pWillInfo, remainingLength)
    \o encodeString(pConnectInfo.pClientIdentifier, pConnectInfo.clientIdentifierLength)
    \o (IF ~pWillInfo.null
        THEN encodeString(pWillInfo.pTopicName, pWillInfo.topicNameLength)
             \o encodeString(pWillInfo.pPayload, pWillInfo.payloadLength % 65536)
        ELSE <<>>)
    \o (IF ~pConnectInfo.pUserName.null
        THEN encodeString(pConnectInfo.pUserName, pConnectInfo.userNameLength)
        ELSE <<>>)
    \o (IF ~pConnectInfo.pPassword.null
        THEN encodeString(pConnectInfo.pPassword, pConnectInfo.passwordLength)
        ELSE <<>>)

(* The result of a serialize call: its status and the bytes it wrote,      *)
(* first byte at index 0 of the caller's buffer of the given size.         *)
MQTT_SerializeConnect(pConnectInfo, pWillInfo, remainingLength, size) ==
    IF ~pWillInfo.null /\ pWillInfo.pTopicName.null
    THEN [status |-> MQTTBadParameter, written |-> <<>>]
    ELSE IF remainingLength + remainingLengthEncodedSize(remainingLength) + 1 > size
    THEN [status |-> MQTTNoMemory, written |-> <<>>]
    ELSE [status |-> MQTTSuccess,
          written |-> serializeConnectPacket(pConnectInfo, pWillInfo, remainingLength)]

(***************************************************************************)
(* PUBLISH.                                                                *)
(***************************************************************************)
MQTT_PUBLISH_FLAG_RETAIN == 0
MQTT_PUBLISH_FLAG_QOS1 == 1
MQTT_PUBLISH_FLAG_QOS2 == 2
MQTT_PUBLISH_FLAG_DUP == 3

calculatePublishPacketSize_NoPacketId(pPublishInfo) ==
    LET packetSize == pPublishInfo.topicNameLength + 2 + pPublishInfo.payloadLength
    IN IF pPublishInfo.payloadLength > MQTT_MAX_REMAINING_LENGTH - packetSize - 1
       THEN [status |-> FALSE, remainingLength |-> Unset, packetSize |-> Unset]
       ELSE [status |-> TRUE, remainingLength |-> packetSize,
             packetSize |-> packetSize + 1 + remainingLengthEncodedSize(packetSize)]

(* FALSE, or the Remaining Length and packet size of the PUBLISH.          *)
calculatePublishPacketSize(pPublishInfo) ==
    LET headerSize == pPublishInfo.topicNameLength + 2
                      + (IF pPublishInfo.qos > 0 THEN 2 ELSE 0)
        payloadLimit == MQTT_MAX_REMAINING_LENGTH - headerSize - 1
        packetSize == headerSize + pPublishInfo.payloadLength
    IN IF pPublishInfo.payloadLength > payloadLimit
       THEN [status |-> FALSE, remainingLength |-> Unset, packetSize |-> Unset]
       ELSE IF pPublishInfo.payloadLength
                   > payloadLimit - remainingLengthEncodedSize(packetSize)
       THEN [status |-> FALSE, remainingLength |-> Unset, packetSize |-> Unset]
       ELSE [status |-> TRUE, remainingLength |-> packetSize,
             packetSize |-> packetSize + 1 + remainingLengthEncodedSize(packetSize)]

MQTT_GetPublishPacketSize(pPublishInfo) ==
    IF pPublishInfo.pTopicName.null \/ pPublishInfo.topicNameLength = 0
    THEN [status |-> MQTTBadParameter, remainingLength |-> Unset, packetSize |-> Unset]
    ELSE LET r == calculatePublishPacketSize(pPublishInfo)
         IN IF r.status
            THEN [status |-> MQTTSuccess, remainingLength |-> r.remainingLength,
                  packetSize |-> r.packetSize]
            ELSE [status |-> MQTTBadParameter, remainingLength |-> Unset,
                  packetSize |-> Unset]

(* The bytes serializePublishCommon writes from pFixedBuffer->pBuffer on.  *)
serializePublishCommon(pPublishInfo, remainingLength, packetIdentifier, serializePayload) ==
    LET publishFlags ==
            MQTT_PACKET_TYPE_PUBLISH
            + Flag(pPublishInfo.qos = 1, MQTT_PUBLISH_FLAG_QOS1)
            + Flag(pPublishInfo.qos = 2, MQTT_PUBLISH_FLAG_QOS2)
            + Flag(pPublishInfo.retain, MQTT_PUBLISH_FLAG_RETAIN)
            + Flag(pPublishInfo.dup, MQTT_PUBLISH_FLAG_DUP)
    IN <<publishFlags>>
       \o encodeRemainingLength(remainingLength)
       \o encodeString(pPublishInfo.pTopicName, pPublishInfo.topicNameLength)
       \o (IF pPublishInfo.qos > 0
           THEN <<UINT16_HIGH_BYTE(packetIdentifier), UINT16_LOW_BYTE(packetIdentifier)>>
           ELSE <<>>)
       \o (IF pPublishInfo.payloadLength > 0 /\ serializePayload
           THEN BytesAt(pPublishInfo.pPayload, pPublishInfo.payloadLength)
           ELSE <<>>)

serializePublishCommon_PayloadAlways(pPublishInfo, remainingLength, packetIdentifier, serializePayload) ==
    serializePublishCommon(pPublishInfo, remainingLength, packetIdentifier, TRUE)

MQTT_SerializePublish(pPublishInfo, packetId, remainingLength, size) ==
    IF \/ pPublishInfo.payloadLength > 0 /\ pPublishInfo.pPayload.null
       \/ pPublishInfo.pTopicName.null \/ pPublishInfo.topicNameLength = 0
       \/ pPublishInfo.qos # 0 /\ packetId = 0
       \/ pPublishInfo.dup /\ pPublishInfo.qos = 0
    THEN [status |-> MQTTBadParameter, written |-> <<>>]
    ELSE IF 1 + remainingLengthEncodedSize(remainingLength) + remainingLength > size
    THEN [status |-> MQTTNoMemory, written |-> <<>>]
    ELSE [status |-> MQTTSuccess,
          written |-> serializePublishCommon(pPublishInfo, remainingLength, packetId, TRUE)]

MQTT_SerializePublishHeader(pPublishInfo, packetId, remainingLength, size) ==
    LET packetSize == 1 + remainingLengthEncodedSize(remainingLength) + remainingLength
                      - pPublishInfo.payloadLength
    IN IF \/ pPublishInfo.pTopicName.null \/ pPublishInfo.topicNameLength = 0
          \/ pPublishInfo.qos # 0 /\ packetId = 0
          \/ pPublishInfo.dup /\ pPublishInfo.qos = 0
       THEN [status |-> MQTTBadParameter, written |-> <<>>, headerSize |-> Unset]
       ELSE IF packetSize > size
       THEN [status |-> MQTTNoMemory, written |-> <<>>, headerSize |-> Unset]
       ELSE [status |-> MQTTSuccess,
             written |-> serializePublishCommon(pPublishInfo, remainingLength, packetId,
                                                FALSE),
             headerSize |-> packetSize]

(* MQTT_SerializePublishHeaderWithoutTopic checks none of its arguments:   *)
(* it writes the type byte, the Remaining Length and the two bytes of the  *)
(* topic length at pBuffer.                                                *)
MQTT_SerializePublishHeaderWithoutTopic(pPublishInfo, remainingLength) ==
    LET publishFlags ==
            MQTT_PACKET_TYPE_PUBLISH
            + Flag(pPublishInfo.qos = 1, MQTT_PUBLISH_FLAG_QOS1)
            + Flag(pPublishInfo.qos = 2, MQTT_PUBLISH_FLAG_QOS2)
            + Flag(pPublishInfo.retain, MQTT_PUBLISH_FLAG_RETAIN)
            + Flag(pPublishInfo.dup, MQTT_PUBLISH_FLAG_DUP)
    IN [status |-> MQTTSuccess,
        written |-> <<publishFlags>>
                    \o encodeRemainingLength(remainingLength)
                    \o <<UINT16_HIGH_BYTE(pPublishInfo.topicNameLength),
                         UINT16_LOW_BYTE(pPublishInfo.topicNameLength)>>,
        headerSize |-> 1 + remainingLengthEncodedSize(remainingLength) + 2]

(***************************************************************************)
(* SUBSCRIBE and UNSUBSCRIBE.  pSubscriptionList is a sequence of          *)
(* MQTTSubscribeInfo_t, subscriptionCount its length.                      *)
(***************************************************************************)
MQTT_SUBSCRIBE == "MQTT_SUBSCRIBE"
MQTT_UNSUBSCRIBE == "MQTT_UNSUBSCRIBE"

(* The for loop of calculateSubscriptionPacketSize: the sum it adds to     *)
(* packetSize over the entries of the list.                                *)
RECURSIVE subscriptionEntriesSize(_, _)
subscriptionEntriesSize(pSubscriptionList, subscriptionType) ==
    IF pSubscriptionList = <<>> THEN 0
    ELSE Head(pSubscriptionList).topicFilterLength + 2
         + (IF subscriptionType = MQTT_SUBSCRIBE THEN 1 ELSE 0)
         + subscriptionEntriesSize(Tail(pSubscriptionList), subscriptionType)

calculateSubscriptionPacketSize(pSubscriptionList, subscriptionType) ==
    LET packetSize == 2 + subscriptionEntriesSize(pSubscriptionList, subscriptionType)
        badEntry == \E i \in 1..Len(pSubscriptionList) :
                        \/ pSubscriptionList[i].topicFilterLength = 0
                        \/ pSubscriptionList[i].pTopicFilter.null
    IN IF badEntry \/ packetSize > MQTT_MAX_REMAINING_LENGTH
       THEN [status |-> MQTTBadParameter, remainingLength |-> Unset, packetSize |-> Unset]
       ELSE [status |-> MQTTSuccess, remainingLength |-> packetSize,
             packetSize |-> packetSize + 1 + remainingLengthEncodedSize(packetSize)]

MQTT_GetSubscribePacketSize(pSubscriptionList) ==
    IF Len(pSubscriptionList) = 0
    THEN [status |-> MQTTBadParameter, remainingLength |-> Unset, packetSize |-> Unset]
    ELSE calculateSubscriptionPacketSize(pSubscriptionList, MQTT_SUBSCRIBE)

MQTT_GetUnsubscribePacketSize(pSubscriptionList) ==
    IF Len(pSubscriptionList) = 0
    THEN [status |-> MQTTBadParameter, remainingLength |-> Unset, packetSize |-> Unset]
    ELSE calculateSubscriptionPacketSize(pSubscriptionList, MQTT_UNSUBSCRIBE)

validateSubscriptionSerializeParams_NoTypeByte(pSubscriptionList, packetId, remainingLength, size) ==
    IF Len(pSubscriptionList) = 0 \/ packetId = 0
    THEN MQTTBadParameter
    ELSE IF remainingLengthEncodedSize(remainingLength) + remainingLength > size
    THEN MQTTNoMemory
    ELSE MQTTSuccess

validateSubscriptionSerializeParams(pSubscriptionList, packetId, remainingLength, size) ==
    IF Len(pSubscriptionList) = 0
    THEN MQTTBadParameter
    ELSE IF packetId = 0
    THEN MQTTBadParameter
    ELSE IF 1 + remainingLengthEncodedSize(remainingLength) + remainingLength > size
    THEN MQTTNoMemory
    ELSE MQTTSuccess

MQTT_SerializeSubscribeHeader(remainingLength, packetId) ==
    <<MQTT_PACKET_TYPE_SUBSCRIBE>> \o encodeRemainingLength(remainingLength)
        \o <<UINT16_HIGH_BYTE(packetId), UINT16_LOW_BYTE(packetId)>>

MQTT_SerializeUnsubscribeHeader(remainingLength, packetId) ==
    <<MQTT_PACKET_TYPE_UNSUBSCRIBE>> \o encodeRemainingLength(remainingLength)
        \o <<UINT16_HIGH_BYTE(packetId), UINT16_LOW_BYTE(packetId)>>

(* The for loop of the two serializers: each entry's topic filter, and    *)
(* for SUBSCRIBE the options byte after it.                                *)
RECURSIVE serializeSubscriptionEntries(_, _)
serializeSubscriptionEntries(pSubscriptionList, subscriptionType) ==
    IF pSubscriptionList = <<>> THEN <<>>
    ELSE encodeString(Head(pSubscriptionList).pTopicFilter,
                      Head(pSubscriptionList).topicFilterLength)
         \o (IF subscriptionType = MQTT_SUBSCRIBE THEN <<Head(pSubscriptionList).qos>>
             ELSE <<>>)
         \o serializeSubscriptionEntries(Tail(pSubscriptionList), subscriptionType)

MQTT_SerializeSubscribe(pSubscriptionList, packetId, remainingLength, size) ==
    LET status == validateSubscriptionSerializeParams(pSubscriptionList, packetId,
                                                      remainingLength, size)
    IN IF status = MQTTSuccess
       THEN [status |-> MQTTSuccess,
             written |-> MQTT_SerializeSubscribeHeader(remainingLength, packetId)
                         \o serializeSubscriptionEntries(pSubscriptionList,
                                                         MQTT_SUBSCRIBE)]
       ELSE [status |-> status, written |-> <<>>]

MQTT_SerializeUnsubscribe(pSubscriptionList, packetId, remainingLength, size) ==
    LET status == validateSubscriptionSerializeParams(pSubscriptionList, packetId,
                                                      remainingLength, size)
    IN IF status = MQTTSuccess
       THEN [status |-> MQTTSuccess,
             written |-> MQTT_SerializeUnsubscribeHeader(remainingLength, packetId)
                         \o serializeSubscriptionEntries(pSubscriptionList,
                                                         MQTT_UNSUBSCRIBE)]
       ELSE [status |-> status, written |-> <<>>]

(***************************************************************************)
(* Publish acks, PINGREQ, DISCONNECT.                                      *)
(***************************************************************************)
MQTT_PUBLISH_ACK_PACKET_SIZE == 4
MQTT_PACKET_SIMPLE_ACK_REMAINING_LENGTH == 2
MQTT_DISCONNECT_PACKET_SIZE == 2
MQTT_DISCONNECT_REMAINING_LENGTH == 0
MQTT_PACKET_PINGREQ_SIZE == 2

MQTT_SerializeAck(size, packetType, packetId) ==
    IF size < MQTT_PUBLISH_ACK_PACKET_SIZE
    THEN [status |-> MQTTNoMemory, written |-> <<>>]
    ELSE IF packetId = 0
    THEN [status |-> MQTTBadParameter, written |-> <<>>]
    ELSE IF packetType \in { MQTT_PACKET_TYPE_PUBACK, MQTT_PACKET_TYPE_PUBREC,
                             MQTT_PACKET_TYPE_PUBREL, MQTT_PACKET_TYPE_PUBCOMP }
    THEN [status |-> MQTTSuccess,
          written |-> <<packetType, MQTT_PACKET_SIMPLE_ACK_REMAINING_LENGTH,
                        UINT16_HIGH_BYTE(packetId), UINT16_LOW_BYTE(packetId)>>]
    ELSE [status |-> MQTTBadParameter, written |-> <<>>]

MQTT_GetDisconnectPacketSize == [status |-> MQTTSuccess, packetSize |-> MQTT_DISCONNECT_PACKET_SIZE]

MQTT_SerializeDisconnect(size) ==
    IF size < MQTT_DISCONNECT_PACKET_SIZE
    THEN [status |-> MQTTNoMemory, written |-> <<>>]
    ELSE [status |-> MQTTSuccess,
          written |-> <<MQTT_PACKET_TYPE_DISCONNECT, MQTT_DISCONNECT_REMAINING_LENGTH>>]

MQTT_GetPingreqPacketSize == [status |-> MQTTSuccess, packetSize |-> MQTT_PACKET_PINGREQ_SIZE]

MQTT_SerializePingreq(size) ==
    IF size < MQTT_PACKET_PINGREQ_SIZE
    THEN [status |-> MQTTNoMemory, written |-> <<>>]
    ELSE [status |-> MQTTSuccess, written |-> <<MQTT_PACKET_TYPE_PINGREQ, 0>>]

(***************************************************************************)
(* The property builder (MQTTPropBuilder_t): the caller's buffer, its      *)
(* length, the write index and the set of bit positions set in fieldSet.   *)
(***************************************************************************)
MQTTPropertyBuilder_Init(buffer, length) ==
    IF buffer.null \/ length = 0
    THEN [status |-> MQTTBadParameter, builder |-> NullBuilder]
    ELSE [status |-> MQTTSuccess,
          builder |-> [null |-> FALSE, pBuffer |-> buffer, bufferLength |-> length,
                       currentIndex |-> 0, fieldSet |-> {}]]

(***************************************************************************)
(* Reading received bytes.  A region of received memory is a sequence of   *)
(* bytes addressed from 0; a decoder is given the region, an index into    *)
(* it and the number of bytes it may still consume.  Every result carries  *)
(* `reads', one more than the highest index the call has read (0 when it   *)
(* has read nothing).  An index outside the region holds no byte of the    *)
(* packet: ByteAt gives such a read the value StaleByte.                   *)
(***************************************************************************)
StaleByte == 0 - 1

ByteAt(pBuffer, index) ==
    IF index < Len(pBuffer) THEN pBuffer[index + 1] ELSE StaleByte

Max(a, b) == IF a > b THEN a ELSE b

UINT16_DECODE(pBuffer, index) == ByteAt(pBuffer, index) * 256 + ByteAt(pBuffer, index + 1)

(* A 32-bit value is kept as its two 16-bit halves, high half first.      *)
UINT32_DECODE(pBuffer, index) ==
    <<UINT16_DECODE(pBuffer, index), UINT16_DECODE(pBuffer, index + 2)>>

IsZero32(value) == value = <<0, 0>>

(* Result of a property decoder that stored no value: `wrote' tells        *)
(* whether the caller's output was assigned.                              *)
DecodeFailed(pIndex, propertyLength, used, reads) ==
    [status |-> MQTTBadResponse, pIndex |-> pIndex, propertyLength |-> propertyLength,
     used |-> used, wrote |-> FALSE, value |-> Unset, reads |-> reads]

(* decodeUint32t without its test of the flag that tells the property was  *)
(* seen before.                                                            *)
decodeUint32t_SeenBeforeIgnored(pBuffer, pIndex, propertyLength, used) ==
    IF propertyLength < 4
    THEN DecodeFailed(pIndex, propertyLength, used, 0)
    ELSE [status |-> MQTTSuccess, pIndex |-> pIndex + 4, propertyLength |-> propertyLength - 4,
          used |-> TRUE, wrote |-> TRUE, value |-> UINT32_DECODE(pBuffer, pIndex),
          reads |-> pIndex + 4]

decodeUint32t(pBuffer, pIndex, propertyLength, used) ==
    IF used
    THEN DecodeFailed(pIndex, propertyLength, used, 0)
    ELSE IF propertyLength < 4
    THEN DecodeFailed(pIndex, propertyLength, used, 0)
    ELSE [status |-> MQTTSuccess, pIndex |-> pIndex + 4, propertyLength |-> propertyLength - 4,
          used |-> TRUE, wrote |-> TRUE, value |-> UINT32_DECODE(pBuffer, pIndex),
          reads |-> pIndex + 4]

decodeUint16t(pBuffer, pIndex, propertyLength, used) ==
    IF used
    THEN DecodeFailed(pIndex, propertyLength, used, 0)
    ELSE IF propertyLength < 2
    THEN DecodeFailed(pIndex, propertyLength, used, 0)
    ELSE [status |-> MQTTSuccess, pIndex |-> pIndex + 2, propertyLength |-> propertyLength - 2,
          used |-> TRUE, wrote |-> TRUE, value |-> UINT16_DECODE(pBuffer, pIndex),
          reads |-> pIndex + 2]

(* decodeUint8t consumes the byte and only then rejects a value above 1.   *)
decodeUint8t(pBuffer, pIndex, propertyLength, used) ==
    IF used
    THEN DecodeFailed(pIndex, propertyLength, used, 0)
    ELSE IF propertyLength < 1
    THEN DecodeFailed(pIndex, propertyLength, used, 0)
    ELSE [status |-> IF ByteAt(pBuffer, pIndex) > 1 THEN MQTTBadResponse ELSE MQTTSuccess,
          pIndex |-> pIndex + 1, propertyLength |-> propertyLength - 1,
          used |-> TRUE, wrote |-> TRUE, value |-> ByteAt(pBuffer, pIndex),
          reads |-> pIndex + 1]

(* decodeUtf8 reads the two length bytes, and hands out the string (start  *)
(* index and length, the bytes themselves are not read) when it fits.      *)
decodeUtf8(pBuffer, pIndex, propertyLength, used) ==
    IF used
    THEN DecodeFailed(pIndex, propertyLength, used, 0)
    ELSE IF propertyLength < 2
    THEN DecodeFailed(pIndex, propertyLength, used, 0)
    ELSE LET length == UINT16_DECODE(pBuffer, pIndex)
         IN IF propertyLength - 2 < length
            THEN DecodeFailed(pIndex + 2, propertyLength - 2, used, pIndex + 2)
            ELSE [status |-> MQTTSuccess, pIndex |-> pIndex + 2 + length,
                  propertyLength |-> propertyLength - 2 - length, used |-> TRUE,
                  wrote |-> TRUE,
                  value |-> [start |-> pIndex + 2, length |-> length],
                  reads |-> pIndex + 2]

(* decodeUserProp: a key and a value, each decoded with a fresh `used'.    *)
decodeUserProp(pBuffer, pIndex, propertyLength) ==
    LET key == decodeUtf8(pBuffer, pIndex, propertyLength, FALSE)
    IN IF key.status # MQTTSuccess
       THEN key
       ELSE LET val == decodeUtf8(pBuffer, key.pIndex, key.propertyLength, FALSE)
            IN IF val.status # MQTTSuccess
               THEN [val EXCEPT !.reads = Max(key.reads, val.reads)]
               ELSE [val EXCEPT !.value = [key |-> key.value, value |-> val.value]]

(***************************************************************************)
(* Property identifiers on the wire.                                       *)
(***************************************************************************)
MQTT_SESSION_EXPIRY_ID == 17
MQTT_RECEIVE_MAX_ID == 33
MQTT_MAX_PACKET_SIZE_ID == 39
MQTT_TOPIC_ALIAS_MAX_ID == 34
MQTT_REQUEST_RESPONSE_ID == 25
MQTT_REQUEST_PROBLEM_ID == 23
MQTT_USER_PROPERTY_ID == 38
MQTT_AUTH_METHOD_ID == 21
MQTT_AUTH_DATA_ID == 22
MQTT_WILL_DELAY_ID == 24
MQTT_PAYLOAD_FORMAT_ID == 1
MQTT_MSG_EXPIRY_ID == 2
MQTT_CONTENT_TYPE_ID == 3
MQTT_RESPONSE_TOPIC_ID == 8
MQTT_CORRELATION_DATA_ID == 9
MQTT_TOPIC_ALIAS_ID == 35
MQTT_MAX_QOS_ID == 36
MQTT_RETAIN_AVAILABLE_ID == 37
MQTT_ASSIGNED_CLIENT_ID == 18
MQTT_REASON_STRING_ID == 31
MQTT_WILDCARD_ID == 40
MQTT_SUB_AVAILABLE_ID == 41
MQTT_SHARED_SUB_ID == 42
MQTT_SERVER_KEEP_ALIVE_ID == 19
MQTT_RESPONSE_INFO_ID == 26
MQTT_SERVER_REF_ID == 28
MQTT_SUBSCRIPTION_ID_ID == 11

(***************************************************************************)
(* CONNACK.                                                                *)
(***************************************************************************)
MQTT_PACKET_CONNACK_MINIMUM_SIZE == 3

(* The reason codes of MQTTConnackReasonCode_t that isValidConnackReasonCode *)
(* lets through: 0x00, 0x80 .. 0x8A, 0x8C, 0x90, 0x95, 0x97, 0x99 .. 0x9D, 0x9F. *)
isValidConnackReasonCode(reasonCode) ==
    IF reasonCode \in ({0} \cup (128 .. 138) \cup {140, 144, 149, 151} \cup (153 .. 157) \cup {159})
    THEN MQTTSuccess
    ELSE MQTTBadResponse

validateConnackParams(pIncomingPacket) ==
    IF pIncomingPacket.remainingLength < MQTT_PACKET_CONNACK_MINIMUM_SIZE
    THEN [status |-> MQTTBadResponse, sessionPresent |-> Unset, reads |-> 0]
    ELSE LET pRemainingData == pIncomingPacket.pRemainingData.data
             flags == ByteAt(pRemainingData, 0)
             reasonCode == ByteAt(pRemainingData, 1)
         IN IF flags \notin {0, 1}
            THEN [status |-> MQTTBadResponse, sessionPresent |-> Unset, reads |-> 2]
            ELSE IF flags = 1 /\ reasonCode # 0
            THEN [status |-> MQTTBadResponse, sessionPresent |-> TRUE, reads |-> 2]
            ELSE IF isValidConnackReasonCode(reasonCode) # MQTTSuccess
            THEN [status |-> MQTTBadResponse, sessionPresent |-> (flags = 1), reads |-> 2]
            ELSE [status |-> IF reasonCode # 0 THEN MQTTServerRefused ELSE MQTTSuccess,
                  sessionPresent |-> (flags = 1), reads |-> 2]

(* The field of MQTTConnectionProperties_t that each case of the switch in *)
(* deserializeConnackProperties decodes into ("" when the value is         *)
(* dropped).                                                               *)
ConnackField(propertyId) ==
    CASE propertyId = MQTT_SESSION_EXPIRY_ID -> "sessionExpiry"
      [] propertyId = MQTT_RECEIVE_MAX_ID -> "serverReceiveMax"
      [] propertyId = MQTT_MAX_QOS_ID -> "serverMaxQos"
      [] propertyId = MQTT_RETAIN_AVAILABLE_ID -> "retainAvailable"
      [] propertyId = MQTT_MAX_PACKET_SIZE_ID -> "serverMaxPacketSize"
      [] propertyId = MQTT_TOPIC_ALIAS_MAX_ID -> "serverTopicAliasMax"
      [] propertyId = MQTT_WILDCARD_ID -> "isWildcardAvailable"
      [] propertyId = MQTT_SUB_AVAILABLE_ID -> "isSubscriptionIdAvailable"
      [] propertyId = MQTT_SHARED_SUB_ID -> "isSharedAvailable"
      [] propertyId = MQTT_SERVER_KEEP_ALIVE_ID -> "serverKeepAlive"
      [] OTHER -> ""

(* One case of the switch: the decoder the case calls.                     *)
ConnackDecode(propertyId, pBuffer, pIndex, propertyLength, used) ==
    CASE propertyId \in {MQTT_SESSION_EXPIRY_ID, MQTT_MAX_PACKET_SIZE_ID} ->
             decodeUint32t(pBuffer, pIndex, propertyLength, used)
      [] propertyId \in {MQTT_RECEIVE_MAX_ID, MQTT_TOPIC_ALIAS_MAX_ID, MQTT_SERVER_KEEP_ALIVE_ID} ->
             decodeUint16t(pBuffer, pIndex, propertyLength, used)
      [] propertyId \in {MQTT_MAX_QOS_ID, MQTT_RETAIN_AVAILABLE_ID, MQTT_WILDCARD_ID,
                         MQTT_SUB_AVAILABLE_ID, MQTT_SHARED_SUB_ID} ->
             decodeUint8t(pBuffer, pIndex, propertyLength, used)
      [] propertyId \in {MQTT_ASSIGNED_CLIENT_ID, MQTT_REASON_STRING_ID, MQTT_RESPONSE_INFO_ID,
                         MQTT_SERVER_REF_ID, MQTT_AUTH_METHOD_ID, MQTT_AUTH_DATA_ID} ->
             decodeUtf8(pBuffer, pIndex, propertyLength, used)
      [] propertyId = MQTT_USER_PROPERTY_ID ->
             [decodeUserProp(pBuffer, pIndex, propertyLength) EXCEPT !.used = used]
      [] OTHER -> DecodeFailed(pIndex, propertyLength, used, 0)

(* One case of the switch: the check the case makes on a decoded value.    *)
(* A parser that lets every decoded value through.                         *)
ConnackValueRejected_NoValue(pConnackProperties, propertyId, value) == FALSE

ConnackValueRejected(pConnackProperties, propertyId, value) ==
    \/ propertyId = MQTT_RECEIVE_MAX_ID /\ value = 0
    \/ propertyId = MQTT_MAX_PACKET_SIZE_ID /\ IsZero32(value)
    \/ propertyId \in {MQTT_MAX_QOS_ID, MQTT_RETAIN_AVAILABLE_ID, MQTT_WILDCARD_ID,
                       MQTT_SUB_AVAILABLE_ID, MQTT_SHARED_SUB_ID} /\ value > 1
    \/ propertyId = MQTT_RESPONSE_INFO_ID /\ ~pConnackProperties.requestResponseInfo

(* The while loop of deserializeConnackProperties.  `used' is the set of   *)
(* identifiers whose bool flag is set.                                     *)
RECURSIVE deserializeConnackPropertiesLoop(_, _, _, _, _, _, _)
deserializeConnackPropertiesLoop(pConnackProperties, pBuffer, pIndex, propertyLength, used, status, reads) ==
    IF ~(propertyLength > 0 /\ status = MQTTSuccess)
    THEN [status |-> status, pConnackProperties |-> pConnackProperties, reads |-> reads]
    ELSE LET propertyId == ByteAt(pBuffer, pIndex)
             d == ConnackDecode(propertyId, pBuffer, pIndex + 1, propertyLength - 1,
                                propertyId \in used)
             field == ConnackField(propertyId)
             stored == IF field # "" /\ d.wrote
                       THEN [pConnackProperties EXCEPT ![field] = d.value]
                       ELSE pConnackProperties
             st == IF d.status = MQTTSuccess
                      /\ ConnackValueRejected(pConnackProperties, propertyId, d.value)
                   THEN MQTTBadResponse
                   ELSE d.status
         IN deserializeConnackPropertiesLoop(stored, pBuffer, d.pIndex, d.propertyLength,
                                             IF d.used THEN used \cup {propertyId} ELSE used,
                                             st, Max(Max(reads, pIndex + 1), d.reads))

(* deserializeConnackProperties: pIndex is the index of the property       *)
(* length field.  The caller's property buffer, when there is one, is      *)
(* pointed at the block: pBuffer and bufferLength are set, nothing else.   *)
deserializeConnackProperties(pConnackProperties, length, pBuffer, pIndex, pPropBuffer) ==
    LET pVariableHeader == pIndex + variableLengthEncodedSize(length)
        r == deserializeConnackPropertiesLoop(pConnackProperties, pBuffer, pVariableHeader,
                                              length, {}, MQTTSuccess, 0)
    IN [status |-> r.status, pConnackProperties |-> r.pConnackProperties, reads |-> r.reads,
        pPropBuffer |-> IF pPropBuffer.null
                        THEN pPropBuffer
                        ELSE [pPropBuffer EXCEPT
                                  !.pBuffer = Ptr(SubSeq(pBuffer, pVariableHeader + 1,
                                                         pVariableHeader + length)),
                                  !.bufferLength = length]]

(* A NULL pointer to a packet, a properties record or an output slot.      *)
NullArg == [null |-> TRUE]

(* deserializeConnack without the comparison of the remaining length with  *)
(* the length of the property block.                                       *)
deserializeConnack_LengthUnchecked(pConnackProperties, pIncomingPacket, pPropBuffer) ==
    LET v == validateConnackParams(pIncomingPacket)
        pRemainingData == pIncomingPacket.pRemainingData.data
        unparsed == [status |-> v.status, sessionPresent |-> v.sessionPresent,
                     pConnackProperties |-> pConnackProperties, pPropBuffer |-> pPropBuffer,
                     reads |-> v.reads]
    IN IF v.status \notin {MQTTSuccess, MQTTServerRefused}
       THEN unparsed
       ELSE LET d == decodeVariableLength(SubSeq(pRemainingData, 3, Len(pRemainingData)),
                                          pIncomingPacket.remainingLength - 2)
                reads == Max(v.reads, IF d.bytesDecoded > 0 THEN 2 + d.bytesDecoded ELSE 0)
            IN IF d.status # MQTTSuccess
               THEN [unparsed EXCEPT !.status = d.status, !.reads = reads]
               ELSE LET p == deserializeConnackProperties(pConnackProperties, d.length,
                                                          pRemainingData, 2, pPropBuffer)
                    IN [status |-> IF p.status = MQTTSuccess THEN v.status ELSE p.status,
                        sessionPresent |-> v.sessionPresent,
                        pConnackProperties |-> p.pConnackProperties,
                        pPropBuffer |-> p.pPropBuffer,
                        reads |-> Max(reads, p.reads)]

deserializeConnack(pConnackProperties, pIncomingPacket, pPropBuffer) ==
    LET v == validateConnackParams(pIncomingPacket)
        pRemainingData == pIncomingPacket.pRemainingData.data
        unparsed == [status |-> v.status, sessionPresent |-> v.sessionPresent,
                     pConnackProperties |-> pConnackProperties, pPropBuffer |-> pPropBuffer,
                     reads |-> v.reads]
    IN IF v.status \notin {MQTTSuccess, MQTTServerRefused}
       THEN unparsed
       ELSE LET d == decodeVariableLength(SubSeq(pRemainingData, 3, Len(pRemainingData)),
                                          pIncomingPacket.remainingLength - 2)
                reads == Max(v.reads, IF d.bytesDecoded > 0 THEN 2 + d.bytesDecoded ELSE 0)
            IN IF d.status # MQTTSuccess
               THEN [unparsed EXCEPT !.status = d.status, !.reads = reads]
               ELSE IF pIncomingPacket.remainingLength
                          # 2 + d.length + variableLengthEncodedSize(d.length)
               THEN [unparsed EXCEPT !.status = MQTTBadResponse, !.reads = reads]
               ELSE LET p == deserializeConnackProperties(pConnackProperties, d.length,
                                                          pRemainingData, 2, pPropBuffer)
                    IN [status |-> IF p.status = MQTTSuccess THEN v.status ELSE p.status,
                        sessionPresent |-> v.sessionPresent,
                        pConnackProperties |-> p.pConnackProperties,
                        pPropBuffer |-> p.pPropBuffer,
                        reads |-> Max(reads, p.reads)]

MQTT_DeserializeConnAck(pIncomingPacket, pSessionPresent, pPropBuffer, pConnectProperties) ==
    LET rejected(status) == [status |-> status, sessionPresent |-> Unset,
                             pConnackProperties |-> pConnectProperties,
                             pPropBuffer |-> pPropBuffer, reads |-> 0]
    IN IF pIncomingPacket.null
       THEN rejected(MQTTBadParameter)
       ELSE IF pConnectProperties.null
       THEN rejected(MQTTBadParameter)
       ELSE IF pIncomingPacket.type # MQTT_PACKET_TYPE_CONNACK
       THEN rejected(MQTTBadParameter)
       ELSE IF pSessionPresent.null
       THEN rejected(MQTTBadParameter)
       ELSE IF pIncomingPacket.pRemainingData.null
       THEN rejected(MQTTBadParameter)
       ELSE IF pConnectProperties.maxPacketSize = 0
       THEN rejected(MQTTBadParameter)
       ELSE IF pIncomingPacket.remainingLength
                   + variableLengthEncodedSize(pIncomingPacket.remainingLength) + 1
               > pConnectProperties.maxPacketSize
       THEN rejected(MQTTBadResponse)
       ELSE deserializeConnack(pConnectProperties, pIncomingPacket, pPropBuffer)

(***************************************************************************)
(* Incoming PUBLISH.                                                       *)
(***************************************************************************)
MQTT_MIN_PUBLISH_REMAINING_LENGTH_QOS0 == 3

checkPublishRemainingLength(remainingLength, qos, qos0Minimum) ==
    IF qos = 0
    THEN IF remainingLength < qos0Minimum THEN MQTTBadResponse ELSE MQTTSuccess
    ELSE IF remainingLength < qos0Minimum + 2 THEN MQTTBadResponse ELSE MQTTSuccess

(* processPublishFlags that never reports the retain bit.                  *)
processPublishFlags_RetainDropped(publishFlags) ==
    IF BitSet(publishFlags, MQTT_PUBLISH_FLAG_QOS2) /\ BitSet(publishFlags, MQTT_PUBLISH_FLAG_QOS1)
    THEN [status |-> MQTTBadResponse, qos |-> Unset, retain |-> Unset, dup |-> Unset]
    ELSE [status |-> MQTTSuccess,
          qos |-> IF BitSet(publishFlags, MQTT_PUBLISH_FLAG_QOS2) THEN 2
                  ELSE IF BitSet(publishFlags, MQTT_PUBLISH_FLAG_QOS1) THEN 1 ELSE 0,
          retain |-> FALSE,
          dup |-> BitSet(publishFlags, MQTT_PUBLISH_FLAG_DUP)]

processPublishFlags(publishFlags) ==
    IF BitSet(publishFlags, MQTT_PUBLISH_FLAG_QOS2) /\ BitSet(publishFlags, MQTT_PUBLISH_FLAG_QOS1)
    THEN [status |-> MQTTBadResponse, qos |-> Unset, retain |-> Unset, dup |-> Unset]
    ELSE [status |-> MQTTSuccess,
          qos |-> IF BitSet(publishFlags, MQTT_PUBLISH_FLAG_QOS2) THEN 2
                  ELSE IF BitSet(publishFlags, MQTT_PUBLISH_FLAG_QOS1) THEN 1 ELSE 0,
          retain |-> BitSet(publishFlags, MQTT_PUBLISH_FLAG_RETAIN),
          dup |-> BitSet(publishFlags, MQTT_PUBLISH_FLAG_DUP)]

(* deserializePublish: the topic and the payload are handed out as start   *)
(* index and length into the remaining data; their bytes are not read.     *)
deserializePublish(pIncomingPacket) ==
    LET pVariableHeader == pIncomingPacket.pRemainingData.data
        remainingLength == pIncomingPacket.remainingLength
        f == processPublishFlags(pIncomingPacket.type % 16)
        failed(reads) == [status |-> MQTTBadResponse, packetId |-> Unset,
                          pPublishInfo |-> NullArg, reads |-> reads]
    IN IF f.status # MQTTSuccess
       THEN failed(0)
       ELSE IF checkPublishRemainingLength(remainingLength, f.qos,
                                           MQTT_MIN_PUBLISH_REMAINING_LENGTH_QOS0) # MQTTSuccess
       THEN failed(0)
       ELSE LET topicNameLength == UINT16_DECODE(pVariableHeader, 0)
            IN IF checkPublishRemainingLength(remainingLength, f.qos,
                                              topicNameLength + 2) # MQTTSuccess
               THEN failed(2)
               ELSE LET packetId == IF f.qos > 0
                                    THEN UINT16_DECODE(pVariableHeader, 2 + topicNameLength)
                                    ELSE Unset
                        payloadStart == 2 + topicNameLength + (IF f.qos > 0 THEN 2 ELSE 0)
                        payloadLength == remainingLength - payloadStart
                        reads == IF f.qos > 0 THEN payloadStart ELSE 2
                    IN IF f.qos > 0 /\ packetId = 0
                       THEN failed(reads)
                       ELSE [status |-> MQTTSuccess, packetId |-> packetId,
                             pPublishInfo |->
                                 [null |-> FALSE, qos |-> f.qos, retain |-> f.retain, dup |-> f.dup,
                                  pTopicName |-> [start |-> 2, length |-> topicNameLength],
                                  pPayload |-> IF payloadLength # 0
                                               THEN [start |-> payloadStart,
                                                     length |-> payloadLength]
                                               ELSE NullArg],
                             reads |-> reads]

MQTT_DeserializePublish(pIncomingPacket, pPacketId, pPublishInfo) ==
    LET rejected == [status |-> MQTTBadParameter, packetId |-> Unset,
                     pPublishInfo |-> NullArg, reads |-> 0]
    IN IF pIncomingPacket.null \/ pPacketId.null \/ pPublishInfo.null
       THEN rejected
       ELSE IF HighNibble(pIncomingPacket.type) # MQTT_PACKET_TYPE_PUBLISH
       THEN rejected
       ELSE IF pIncomingPacket.pRemainingData.null
       THEN rejected
       ELSE deserializePublish(pIncomingPacket)

(***************************************************************************)
(* Incoming acknowledgements.                                              *)
(***************************************************************************)
MQTT_PACKET_PINGRESP_REMAINING_LENGTH == 0

(* The for loop of readSubackStatus from index i on; pStatusStart is the   *)
(* index of the first status byte in the remaining data.                   *)
RECURSIVE readSubackStatusLoop(_, _, _, _, _)
readSubackStatusLoop(pBuffer, pStatusStart, statusCount, i, status) ==
    IF i >= statusCount
    THEN [status |-> status, reads |-> IF i > 0 THEN pStatusStart + i ELSE 0]
    ELSE LET subscriptionStatus == ByteAt(pBuffer, pStatusStart + i)
         IN IF subscriptionStatus \in {0, 1, 2}
            THEN readSubackStatusLoop(pBuffer, pStatusStart, statusCount, i + 1, status)
            ELSE IF subscriptionStatus = 128
            THEN readSubackStatusLoop(pBuffer, pStatusStart, statusCount, i + 1,
                                      MQTTServerRefused)
            ELSE [status |-> MQTTBadResponse, reads |-> pStatusStart + i + 1]

readSubackStatus(pBuffer, pStatusStart, statusCount) ==
    readSubackStatusLoop(pBuffer, pStatusStart, statusCount, 0, MQTTSuccess)

deserializeSuback(pSuback) ==
    LET pVariableHeader == pSuback.pRemainingData.data
    IN IF pSuback.remainingLength < 3
       THEN [status |-> MQTTBadResponse, packetId |-> Unset, reads |-> 0]
       ELSE LET packetId == UINT16_DECODE(pVariableHeader, 0)
            IN IF packetId = 0
               THEN [status |-> MQTTBadResponse, packetId |-> packetId, reads |-> 2]
               ELSE LET r == readSubackStatus(pVariableHeader, 2, pSuback.remainingLength - 2)
                    IN [status |-> r.status, packetId |-> packetId, reads |-> Max(2, r.reads)]

deserializeSimpleAck(pAck) ==
    IF pAck.remainingLength # MQTT_PACKET_SIMPLE_ACK_REMAINING_LENGTH
    THEN [status |-> MQTTBadResponse, packetId |-> Unset, reads |-> 0]
    ELSE LET packetId == UINT16_DECODE(pAck.pRemainingData.data, 0)
         IN [status |-> IF packetId = 0 THEN MQTTBadResponse ELSE MQTTSuccess,
             packetId |-> packetId, reads |-> 2]

deserializePingresp(pPingresp) ==
    [status |-> IF pPingresp.remainingLength # MQTT_PACKET_PINGRESP_REMAINING_LENGTH
                THEN MQTTBadResponse
                ELSE MQTTSuccess,
     packetId |-> Unset, reads |-> 0]

MQTT_DeserializeAck(pIncomingPacket, pPacketId, pSessionPresent) ==
    LET result(status) == [status |-> status, packetId |-> Unset, reads |-> 0]
    IN IF pIncomingPacket.null
       THEN result(MQTTBadParameter)
       ELSE IF pPacketId.null
               /\ pIncomingPacket.type \notin {MQTT_PACKET_TYPE_CONNACK, MQTT_PACKET_TYPE_PINGRESP}
       THEN result(MQTTBadParameter)
       ELSE IF pSessionPresent.null /\ pIncomingPacket.type = MQTT_PACKET_TYPE_CONNACK
       THEN result(MQTTBadParameter)
       ELSE IF pIncomingPacket.pRemainingData.null
               /\ pIncomingPacket.type # MQTT_PACKET_TYPE_PINGRESP
       THEN result(MQTTBadParameter)
       ELSE CASE pIncomingPacket.type = MQTT_PACKET_TYPE_CONNACK -> result(MQTTBadParameter)
              [] pIncomingPacket.type = MQTT_PACKET_TYPE_SUBACK -> deserializeSuback(pIncomingPacket)
              [] pIncomingPacket.type = MQTT_PACKET_TYPE_PINGRESP ->
                     deserializePingresp(pIncomingPacket)
              [] pIncomingPacket.type \in {MQTT_PACKET_TYPE_UNSUBACK, MQTT_PACKET_TYPE_PUBACK,
                                           MQTT_PACKET_TYPE_PUBREC, MQTT_PACKET_TYPE_PUBREL,
                                           MQTT_PACKET_TYPE_PUBCOMP} ->
                     deserializeSimpleAck(pIncomingPacket)
              [] OTHER -> result(MQTTBadResponse)

(***************************************************************************)
(* The property reader.  The block to read is bytes 0 .. currentIndex - 1  *)
(* of the builder's buffer; the caller's cursor, the currentIndex argument *)
(* of the code, is an index into it.  The decoders it calls are copies of  *)
(* decodeUint8t .. decodeUserProp compiled with the reader, which are      *)
(* statement for statement those of the CONNACK parser.                    *)
(***************************************************************************)
Cursor(index) == [null |-> FALSE, index |-> index]

checkPropBuilderParams(mqttPropBuilder, currentIndex) ==
    IF mqttPropBuilder.null \/ mqttPropBuilder.pBuffer.null \/ currentIndex.null
    THEN MQTTBadParameter
    ELSE IF currentIndex.index >= mqttPropBuilder.currentIndex
    THEN MQTTNoDataAvailable
    ELSE MQTTSuccess

(* What a getter leaves behind when it fails: the cursor stays.            *)
GetFailed(status, currentIndex, reads) ==
    [status |-> status, currentIndex |-> currentIndex, value |-> Unset, reads |-> reads]

(* The common shape of getPropUint8, getPropUint16, getPropUint32,         *)
(* getPropUtf8 and MQTTPropGet_UserProp once the decoder has run.          *)
GetDecoded(d, currentIndex) ==
    IF d.status = MQTTSuccess
    THEN [status |-> MQTTSuccess, currentIndex |-> Cursor(d.pIndex), value |-> d.value,
          reads |-> Max(currentIndex.index + 1, d.reads)]
    ELSE [status |-> d.status, currentIndex |-> currentIndex, value |-> d.value,
          reads |-> Max(currentIndex.index + 1, d.reads)]

getPropUint8(pPropertyBuilder, currentIndex, propertyId, property) ==
    LET status == checkPropBuilderParams(pPropertyBuilder, currentIndex)
    IN IF status # MQTTSuccess
       THEN GetFailed(status, currentIndex, 0)
       ELSE IF property.null
       THEN GetFailed(MQTTBadParameter, currentIndex, 0)
       ELSE IF propertyId # ByteAt(pPropertyBuilder.pBuffer.data, currentIndex.index)
       THEN GetFailed(MQTTBadParameter, currentIndex, currentIndex.index + 1)
       ELSE GetDecoded(decodeUint8t(pPropertyBuilder.pBuffer.data, currentIndex.index + 1,
                                    pPropertyBuilder.currentIndex - currentIndex.index - 1,
                                    FALSE),
                       currentIndex)

getPropUint16(pPropertyBuilder, currentIndex, propertyId, property) ==
    LET status == checkPropBuilderParams(pPropertyBuilder, currentIndex)
    IN IF status # MQTTSuccess
       THEN GetFailed(status, currentIndex, 0)
       ELSE IF property.null
       THEN GetFailed(MQTTBadParameter, currentIndex, 0)
       ELSE IF propertyId # ByteAt(pPropertyBuilder.pBuffer.data, currentIndex.index)
       THEN GetFailed(MQTTBadParameter, currentIndex, currentIndex.index + 1)
       ELSE GetDecoded(decodeUint16t(pPropertyBuilder.pBuffer.data, currentIndex.index + 1,
                                     pPropertyBuilder.currentIndex - currentIndex.index - 1,
                                     FALSE),
                       currentIndex)

getPropUint32(pPropertyBuilder, currentIndex, propertyId, property) ==
    LET status == checkPropBuilderParams(pPropertyBuilder, currentIndex)
    IN IF status # MQTTSuccess
       THEN GetFailed(status, currentIndex, 0)
       ELSE IF property.null
       THEN GetFailed(MQTTBadParameter, currentIndex, 0)
       ELSE IF propertyId # ByteAt(pPropertyBuilder.pBuffer.data, currentIndex.index)
       THEN GetFailed(MQTTBadParameter, currentIndex, currentIndex.index + 1)
       ELSE GetDecoded(decodeUint32t(pPropertyBuilder.pBuffer.data, currentIndex.index + 1,
                                     pPropertyBuilder.currentIndex - currentIndex.index - 1,
                                     FALSE),
                       currentIndex)

getPropUtf8(pPropertyBuilder, currentIndex, propertyId, property) ==
    LET status == checkPropBuilderParams(pPropertyBuilder, currentIndex)
    IN IF status # MQTTSuccess
       THEN GetFailed(status, currentIndex, 0)
       ELSE IF property.null
       THEN GetFailed(MQTTBadParameter, currentIndex, 0)
       ELSE IF propertyId # ByteAt(pPropertyBuilder.pBuffer.data, currentIndex.index)
       THEN GetFailed(MQTTBadParameter, currentIndex, currentIndex.index + 1)
       ELSE GetDecoded(decodeUtf8(pPropertyBuilder.pBuffer.data, currentIndex.index + 1,
                                  pPropertyBuilder.currentIndex - currentIndex.index - 1,
                                  FALSE),
                       currentIndex)

(* The identifiers MQTT_GetNextPropertyType lets through.                  *)
KnownPropertyIds ==
    { MQTT_SESSION_EXPIRY_ID, MQTT_RECEIVE_MAX_ID, MQTT_MAX_PACKET_SIZE_ID,
      MQTT_TOPIC_ALIAS_MAX_ID, MQTT_REQUEST_RESPONSE_ID, MQTT_REQUEST_PROBLEM_ID,
      MQTT_USER_PROPERTY_ID, MQTT_AUTH_METHOD_ID, MQTT_AUTH_DATA_ID, MQTT_WILL_DELAY_ID,
      MQTT_PAYLOAD_FORMAT_ID, MQTT_MSG_EXPIRY_ID, MQTT_CONTENT_TYPE_ID,
      MQTT_RESPONSE_TOPIC_ID, MQTT_CORRELATION_DATA_ID, MQTT_TOPIC_ALIAS_ID,
      MQTT_MAX_QOS_ID, MQTT_RETAIN_AVAILABLE_ID, MQTT_ASSIGNED_CLIENT_ID,
      MQTT_REASON_STRING_ID, MQTT_WILDCARD_ID, MQTT_SUB_AVAILABLE_ID, MQTT_SHARED_SUB_ID,
      MQTT_SERVER_KEEP_ALIVE_ID, MQTT_RESPONSE_INFO_ID, MQTT_SERVER_REF_ID,
      MQTT_SUBSCRIPTION_ID_ID }

(* MQTT_GetNextPropertyType never moves the cursor; *property is written   *)
(* before the identifier is looked up.                                     *)
MQTT_GetNextPropertyType(pPropertyBuilder, currentIndex, property) ==
    LET status == checkPropBuilderParams(pPropertyBuilder, currentIndex)
    IN IF status # MQTTSuccess
       THEN GetFailed(status, currentIndex, 0)
       ELSE IF property.null
       THEN GetFailed(MQTTBadParameter, currentIndex, 0)
       ELSE LET id == ByteAt(pPropertyBuilder.pBuffer.data, currentIndex.index)
            IN [status |-> IF id \in KnownPropertyIds THEN MQTTSuccess ELSE MQTTBadParameter,
                currentIndex |-> currentIndex, value |-> id,
                reads |-> currentIndex.index + 1]

MQTTPropGet_UserProp(pPropertyBuilder, currentIndex, pUserProperty) ==
    LET status == checkPropBuilderParams(pPropertyBuilder, currentIndex)
    IN IF status # MQTTSuccess
       THEN GetFailed(status, currentIndex, 0)
       ELSE IF pUserProperty.null
       THEN GetFailed(MQTTBadParameter, currentIndex, 0)
       ELSE IF MQTT_USER_PROPERTY_ID # ByteAt(pPropertyBuilder.pBuffer.data, currentIndex.index)
       THEN GetFailed(MQTTBadParameter, currentIndex, currentIndex.index + 1)
       ELSE GetDecoded(decodeUserProp(pPropertyBuilder.pBuffer.data, currentIndex.index + 1,
                                      pPropertyBuilder.currentIndex - currentIndex.index - 1),
                       currentIndex)

MQTTPropGet_SubscriptionId(pPropertyBuilder, currentIndex, pSubscriptionId) ==
    LET status == checkPropBuilderParams(pPropertyBuilder, currentIndex)
        pBuffer == pPropertyBuilder.pBuffer.data
    IN IF status # MQTTSuccess
       THEN GetFailed(status, currentIndex, 0)
       ELSE IF pSubscriptionId.null
       THEN GetFailed(MQTTBadParameter, currentIndex, 0)
       ELSE IF MQTT_SUBSCRIPTION_ID_ID # ByteAt(pBuffer, currentIndex.index)
       THEN GetFailed(MQTTBadParameter, currentIndex, currentIndex.index + 1)
       ELSE LET d == decodeVariableLength_private(
                         SubSeq(pBuffer, currentIndex.index + 2, Len(pBuffer)),
                         pPropertyBuilder.currentIndex - currentIndex.index - 1)
                reads == currentIndex.index + 1 + d.bytesDecoded
            IN IF d.status = MQTTSuccess
               THEN [status |-> MQTTSuccess,
                     currentIndex |-> Cursor(currentIndex.index + 1
                                             + variableLengthEncodedSize(d.length)),
                     value |-> d.length, reads |-> reads]
               ELSE GetFailed(d.status, currentIndex, reads)

(* The typed getters: each passes one identifier to one of the four       *)
(* getProp functions.                                                      *)
PropGetters ==
    [ MQTTPropGet_SessionExpiry |-> [get |-> "Uint32", id |-> MQTT_SESSION_EXPIRY_ID],
      MQTTPropGet_ReceiveMax |-> [get |-> "Uint16", id |-> MQTT_RECEIVE_MAX_ID],
      MQTTPropGet_MaxQos |-> [get |-> "Uint8", id |-> MQTT_MAX_QOS_ID],
      MQTTPropGet_RetainAvailable |-> [get |-> "Uint8", id |-> MQTT_RETAIN_AVAILABLE_ID],
      MQTTPropGet_MaxPacketSize |-> [get |-> "Uint32", id |-> MQTT_SESSION_EXPIRY_ID],
      MQTTPropGet_AssignedClientId |-> [get |-> "Utf8", id |-> MQTT_ASSIGNED_CLIENT_ID],
      MQTTPropGet_TopicAliasMax |-> [get |-> "Uint16", id |-> MQTT_TOPIC_ALIAS_MAX_ID],
      MQTTPropGet_ReasonString |-> [get |-> "Utf8", id |-> MQTT_REASON_STRING_ID],
      MQTTPropGet_WildcardId |-> [get |-> "Uint8", id |-> MQTT_WILDCARD_ID],
      MQTTPropGet_SubsIdAvailable |-> [get |-> "Uint8", id |-> MQTT_SUB_AVAILABLE_ID],
      MQTTPropGet_SharedSubAvailable |-> [get |-> "Uint8", id |-> MQTT_SHARED_SUB_ID],
      MQTTPropGet_ServerKeepAlive |-> [get |-> "Uint16", id |-> MQTT_SERVER_KEEP_ALIVE_ID],
      MQTTPropGet_ResponseInfo |-> [get |-> "Utf8", id |-> MQTT_RESPONSE_INFO_ID],
      MQTTPropGet_ServerRef |-> [get |-> "Utf8", id |-> MQTT_SERVER_REF_ID],
      MQTTPropGet_AuthMethod |-> [get |-> "Utf8", id |-> MQTT_AUTH_METHOD_ID],
      MQTTPropGet_AuthData |-> [get |-> "Utf8", id |-> MQTT_AUTH_DATA_ID],
      MQTTPropGet_PayloadFormatIndicator |-> [get |-> "Uint8", id |-> MQTT_PAYLOAD_FORMAT_ID],
      MQTTPropGet_MessageExpiryInterval |-> [get |-> "Uint32", id |-> MQTT_SESSION_EXPIRY_ID],
      MQTTPropGet_TopicAlias |-> [get |-> "Uint16", id |-> MQTT_TOPIC_ALIAS_ID],
      MQTTPropGet_ResponseTopic |-> [get |-> "Utf8", id |-> MQTT_RESPONSE_TOPIC_ID],
      MQTTPropGet_CorrelationData |-> [get |-> "Utf8", id |-> MQTT_CORRELATION_DATA_ID],
      MQTTPropGet_ContentType |-> [get |-> "Utf8", id |-> MQTT_CONTENT_TYPE_ID] ]

MQTTPropGet(getter, pPropertyBuilder, currentIndex, property) ==
    LET g == PropGetters[getter]
    IN CASE g.get = "Uint8" -> getPropUint8(pPropertyBuilder, currentIndex, g.id, property)
         [] g.get = "Uint16" -> getPropUint16(pPropertyBuilder, currentIndex, g.id, property)
         [] g.get = "Uint32" -> getPropUint32(pPropertyBuilder, currentIndex, g.id, property)
         [] g.get = "Utf8" -> getPropUtf8(pPropertyBuilder, currentIndex, g.id, property)

(* MQTT_InitConnect: the connection properties before a CONNECT goes out.  *)
(* The fields the CONNACK parser does not touch other than maxPacketSize   *)
(* and requestResponseInfo are left out; 32-bit server values are held as  *)
(* 16-bit halves, as UINT32_DECODE produces them.                          *)
MQTT_MAX_PACKET_SIZE == MQTT_MAX_REMAINING_LENGTH + 5

MQTT_InitConnect ==
    [null |-> FALSE,
     maxPacketSize |-> MQTT_MAX_PACKET_SIZE,
     serverReceiveMax |-> UINT16_MAX,
     serverMaxQos |-> 2,
     serverMaxPacketSize |-> <<MQTT_MAX_PACKET_SIZE \div 65536, MQTT_MAX_PACKET_SIZE % 65536>>,
     isWildcardAvailable |-> 1,
     isSubscriptionIdAvailable |-> 1,
     isSharedAvailable |-> 1,
     sessionExpiry |-> <<0, 0>>,
     requestResponseInfo |-> FALSE,
     retainAvailable |-> 1,
     serverTopicAliasMax |-> 0,
     serverKeepAlive |-> UINT16_MAX]

(***************************************************************************)
(* Building a property block.  fieldSet is the set of bit positions that   *)
(* are set in the builder's 32-bit fieldSet; each property has one         *)
(* position.                                                               *)
(***************************************************************************)
MQTT_SUBSCRIPTION_ID_POS == 1
MQTT_SESSION_EXPIRY_INTERVAL_POS == 2
MQTT_RECEIVE_MAXIMUM_POS == 3
MQTT_MAX_PACKET_SIZE_POS == 4
MQTT_TOPIC_ALIAS_MAX_POS == 5
MQTT_REQUEST_RESPONSE_INFO_POS == 6
MQTT_REQUEST_PROBLEM_INFO_POS == 7
MQTT_AUTHENTICATION_METHOD_POS == 9
MQTT_AUTHENTICATION_DATA_POS == 10
MQTT_PAYLOAD_FORMAT_INDICATOR_POS == 11
MQTT_MESSAGE_EXPIRY_INTERVAL_POS == 12
MQTT_TOPIC_ALIAS_POS == 13
MQTT_RESPONSE_TOPIC_POS == 14
MQTT_CORRELATION_DATA_POS == 15
MQTT_CONTENT_TYPE_POS == 16
MQTT_REASON_STRING_POS == 17
MQTT_WILL_DELAY_POS == 18
MQTT_ASSIGNED_CLIENT_ID_POS == 19
MQTT_SERVER_KEEP_ALIVE_POS == 20
MQTT_RESPONSE_INFORMATION_POS == 21
MQTT_SERVER_REFERENCE_POS == 22
MQTT_MAXIMUM_QOS_POS == 23
MQTT_RETAIN_AVAILABLE_POS == 24
MQTT_WILDCARD_SUBSCRIPTION_AVAILABLE_POS == 25
MQTT_SUBSCRIPTION_ID_AVAILABLE_POS == 26
MQTT_SHARED_SUBSCRIPTION_AVAILABLE_POS == 27
MQTT_USER_PROP_POS == 28

(* The AUTH control packet type: type code 15 in the high nibble.          *)
MQTT_PACKET_TYPE_AUTH == 240

(* const uint8_t * pOptionalMqttPacketType: NULL, or the address of a      *)
(* packet type byte.                                                       *)
NoHint == [null |-> TRUE]
Hint(type) == [null |-> FALSE, type |-> type]

(* The positions the switch sets in allowedPropertiesMask for one label.   *)
ConnectProperties ==
    { MQTT_SESSION_EXPIRY_INTERVAL_POS, MQTT_RECEIVE_MAXIMUM_POS,
      MQTT_MAX_PACKET_SIZE_POS, MQTT_TOPIC_ALIAS_MAX_POS,
      MQTT_REQUEST_RESPONSE_INFO_POS, MQTT_REQUEST_PROBLEM_INFO_POS,
      MQTT_USER_PROP_POS, MQTT_AUTHENTICATION_METHOD_POS,
      MQTT_AUTHENTICATION_DATA_POS }

ConnackProperties ==
    { MQTT_SESSION_EXPIRY_INTERVAL_POS, MQTT_RECEIVE_MAXIMUM_POS,
      MQTT_MAXIMUM_QOS_POS, MQTT_RETAIN_AVAILABLE_POS, MQTT_MAX_PACKET_SIZE_POS,
      MQTT_ASSIGNED_CLIENT_ID_POS, MQTT_TOPIC_ALIAS_MAX_POS,
      MQTT_REASON_STRING_POS, MQTT_USER_PROP_POS,
      MQTT_WILDCARD_SUBSCRIPTION_AVAILABLE_POS,
      MQTT_SUBSCRIPTION_ID_AVAILABLE_POS,
      MQTT_SHARED_SUBSCRIPTION_AVAILABLE_POS, MQTT_SERVER_KEEP_ALIVE_POS,
      MQTT_RESPONSE_INFORMATION_POS, MQTT_SERVER_REFERENCE_POS,
      MQTT_AUTHENTICATION_METHOD_POS, MQTT_AUTHENTICATION_DATA_POS }

PublishProperties ==
    { MQTT_PAYLOAD_FORMAT_INDICATOR_POS, MQTT_MESSAGE_EXPIRY_INTERVAL_POS,
      MQTT_TOPIC_ALIAS_POS, MQTT_RESPONSE_TOPIC_POS, MQTT_CORRELATION_DATA_POS,
      MQTT_USER_PROP_POS, MQTT_SUBSCRIPTION_ID_POS, MQTT_CONTENT_TYPE_POS }

AckProperties == { MQTT_REASON_STRING_POS, MQTT_USER_PROP_POS }

SubscribeProperties == { MQTT_SUBSCRIPTION_ID_POS, MQTT_USER_PROP_POS }

UnsubscribeProperties == { MQTT_USER_PROP_POS }

DisconnectProperties ==
    { MQTT_SESSION_EXPIRY_INTERVAL_POS, MQTT_REASON_STRING_POS,
      MQTT_USER_PROP_POS, MQTT_SERVER_REFERENCE_POS }

AuthProperties ==
    { MQTT_AUTHENTICATION_METHOD_POS, MQTT_AUTHENTICATION_DATA_POS,
      MQTT_REASON_STRING_POS, MQTT_USER_PROP_POS }

(* The switch of the property serializer: on the packet type byte as it    *)
(* is given.  The AUTH label has no break and falls into default, which    *)
(* sets nothing more.                                                      *)
allowedPropertiesMask(label) ==
    CASE label = MQTT_PACKET_TYPE_CONNECT -> ConnectProperties
      [] label = MQTT_PACKET_TYPE_CONNACK -> ConnackProperties
      [] label = MQTT_PACKET_TYPE_PUBLISH -> PublishProperties
      [] label \in { MQTT_PACKET_TYPE_PUBACK, MQTT_PACKET_TYPE_PUBREC,
                     MQTT_PACKET_TYPE_PUBREL, MQTT_PACKET_TYPE_PUBCOMP } -> AckProperties
      [] label = MQTT_PACKET_TYPE_SUBSCRIBE -> SubscribeProperties
      [] label = MQTT_PACKET_TYPE_SUBACK -> AckProperties
      [] label = MQTT_PACKET_TYPE_UNSUBSCRIBE -> UnsubscribeProperties
      [] label = MQTT_PACKET_TYPE_UNSUBACK -> AckProperties
      [] label = MQTT_PACKET_TYPE_DISCONNECT -> DisconnectProperties
      [] label \in { MQTT_PACKET_TYPE_PINGREQ, MQTT_PACKET_TYPE_PINGRESP } -> {}
      [] label = MQTT_PACKET_TYPE_AUTH -> AuthProperties
      [] OTHER -> {}

isValidPropertyInPacketType_AllowAll(mqttPacketType, propBitLocation) == TRUE

isValidPropertyInPacketType(mqttPacketType, propBitLocation) ==
    propBitLocation \in allowedPropertiesMask(mqttPacketType.type)

(* The switch of the packet serializer: on the packet type byte with its   *)
(* low nibble cleared, and with no AUTH label.                             *)
serializer_allowedPropertiesMask(label) ==
    CASE label = MQTT_PACKET_TYPE_CONNECT -> ConnectProperties
      [] label = MQTT_PACKET_TYPE_CONNACK -> ConnackProperties
      [] label = MQTT_PACKET_TYPE_PUBLISH -> PublishProperties
      [] label \in { MQTT_PACKET_TYPE_PUBACK, MQTT_PACKET_TYPE_PUBREC,
                     MQTT_PACKET_TYPE_PUBREL, MQTT_PACKET_TYPE_PUBCOMP } -> AckProperties
      [] label = MQTT_PACKET_TYPE_SUBSCRIBE -> SubscribeProperties
      [] label = MQTT_PACKET_TYPE_SUBACK -> AckProperties
      [] label = MQTT_PACKET_TYPE_UNSUBSCRIBE -> UnsubscribeProperties
      [] label = MQTT_PACKET_TYPE_UNSUBACK -> AckProperties
      [] label = MQTT_PACKET_TYPE_DISCONNECT -> DisconnectProperties
      [] label \in { MQTT_PACKET_TYPE_PINGREQ, MQTT_PACKET_TYPE_PINGRESP } -> {}
      [] OTHER -> {}

serializer_isValidPropertyInPacketType(mqttPacketType, propBitLocation) ==
    LET basePacketType == (mqttPacketType.type \div 16) * 16
    IN propBitLocation \in serializer_allowedPropertiesMask(basePacketType)

(* WRITE_UINT32: the four bytes of val, most significant first.           *)
WRITE_UINT32(val) ==
    << (val \div 16777216) % 256, (val \div 65536) % 256,
       (val \div 256) % 256, val % 256 >>

(* Memory after bytes are stored from offset index on (offsets from 0).    *)
(* A store past the end of the sequence lands in the memory behind it.     *)
WriteAt(data, index, bytes) ==
    [i \in 1..Max(Len(data), index + Len(bytes)) |->
        IF i > index /\ i <= index + Len(bytes) THEN bytes[i - index]
        ELSE data[i]]

(* The tail every add shares: the property is stored at currentIndex,      *)
(* currentIndex moves past it and, for a property with a fieldSet bit,     *)
(* the bit is set.                                                         *)
Appended(pPropertyBuilder, bytes, positions) ==
    [status |-> MQTTSuccess,
     builder |-> [pPropertyBuilder EXCEPT
                    !.pBuffer = Ptr(WriteAt(pPropertyBuilder.pBuffer.data,
                                            pPropertyBuilder.currentIndex, bytes)),
                    !.currentIndex = pPropertyBuilder.currentIndex + Len(bytes),
                    !.fieldSet = pPropertyBuilder.fieldSet \cup positions]]

(* A refusal that has already cleared the builder's fieldSet.              *)
Refused_FieldSetCleared(status, pPropertyBuilder) ==
    [status |-> status,
     builder |-> IF pPropertyBuilder.null THEN pPropertyBuilder
                 ELSE [pPropertyBuilder EXCEPT !.fieldSet = {}]]

Refused(status, pPropertyBuilder) == [status |-> status, builder |-> pPropertyBuilder]

addPropUint8(pPropertyBuilder, property, propId, fieldPosition, pOptionalMqttPacketType) ==
    IF pPropertyBuilder.null THEN Refused(MQTTBadParameter, pPropertyBuilder)
    ELSE IF pPropertyBuilder.pBuffer.null THEN Refused(MQTTBadParameter, pPropertyBuilder)
    ELSE IF fieldPosition \in pPropertyBuilder.fieldSet
    THEN Refused(MQTTBadParameter, pPropertyBuilder)
    ELSE IF ~pOptionalMqttPacketType.null
            /\ ~isValidPropertyInPacketType(pOptionalMqttPacketType, fieldPosition)
    THEN Refused(MQTTBadParameter, pPropertyBuilder)
    ELSE IF pPropertyBuilder.currentIndex + 1 + 1 > pPropertyBuilder.bufferLength
    THEN Refused(MQTTNoMemory, pPropertyBuilder)
    ELSE IF pPropertyBuilder.currentIndex + 1 + 1 > MQTT_REMAINING_LENGTH_INVALID
    THEN Refused(MQTTBadParameter, pPropertyBuilder)
    ELSE Appended(pPropertyBuilder, <<propId, IF property # 0 THEN 1 ELSE 0>>,
                  {fieldPosition})

addPropUint16(pPropertyBuilder, property, propId, fieldPosition, pOptionalMqttPacketType) ==
    IF pPropertyBuilder.null THEN Refused(MQTTBadParameter, pPropertyBuilder)
    ELSE IF pPropertyBuilder.pBuffer.null THEN Refused(MQTTBadParameter, pPropertyBuilder)
    ELSE IF fieldPosition \in pPropertyBuilder.fieldSet
    THEN Refused(MQTTBadParameter, pPropertyBuilder)
    ELSE IF ~pOptionalMqttPacketType.null
            /\ ~isValidPropertyInPacketType(pOptionalMqttPacketType, fieldPosition)
    THEN Refused(MQTTBadParameter, pPropertyBuilder)
    ELSE IF pPropertyBuilder.currentIndex + 2 + 1 > pPropertyBuilder.bufferLength
    THEN Refused(MQTTNoMemory, pPropertyBuilder)
    ELSE IF pPropertyBuilder.currentIndex + 2 + 1 > MQTT_REMAINING_LENGTH_INVALID
    THEN Refused(MQTTBadParameter, pPropertyBuilder)
    ELSE Appended(pPropertyBuilder,
                  <<propId, UINT16_HIGH_BYTE(property), UINT16_LOW_BYTE(property)>>,
                  {fieldPosition})

addPropUint32(pPropertyBuilder, property, propId, fieldPosition, pOptionalMqttPacketType) ==
    IF pPropertyBuilder.null THEN Refused(MQTTBadParameter, pPropertyBuilder)
    ELSE IF pPropertyBuilder.pBuffer.null THEN Refused(MQTTBadParameter, pPropertyBuilder)
    ELSE IF fieldPosition \in pPropertyBuilder.fieldSet
    THEN Refused(MQTTBadParameter, pPropertyBuilder)
    ELSE IF ~pOptionalMqttPacketType.null
            /\ ~isValidPropertyInPacketType(pOptionalMqttPacketType, fieldPosition)
    THEN Refused(MQTTBadParameter, pPropertyBuilder)
    ELSE IF pPropertyBuilder.currentIndex + 1 + 4 > pPropertyBuilder.bufferLength
    THEN Refused(MQTTNoMemory, pPropertyBuilder)
    ELSE IF pPropertyBuilder.currentIndex + 1 + 4 > MQTT_REMAINING_LENGTH_INVALID
    THEN Refused(MQTTBadParameter, pPropertyBuilder)
    ELSE Appended(pPropertyBuilder, <<propId>> \o WRITE_UINT32(property),
                  {fieldPosition})

addPropUtf8_NoDuplicateCheck(pPropertyBuilder, property, propertyLength, propId, fieldPosition, pOptionalMqttPacketType) ==
    IF pPropertyBuilder.null THEN Refused(MQTTBadParameter, pPropertyBuilder)
    ELSE IF pPropertyBuilder.pBuffer.null THEN Refused(MQTTBadParameter, pPropertyBuilder)
    ELSE IF property.null THEN Refused(MQTTBadParameter, pPropertyBuilder)
    ELSE IF propertyLength = 0 THEN Refused(MQTTBadParameter, pPropertyBuilder)
    ELSE IF ~pOptionalMqttPacketType.null
            /\ ~isValidPropertyInPacketType(pOptionalMqttPacketType, fieldPosition)
    THEN Refused(MQTTBadParameter, pPropertyBuilder)
    ELSE IF pPropertyBuilder.currentIndex + 1 + propertyLength + 2
                > pPropertyBuilder.bufferLength
    THEN Refused(MQTTNoMemory, pPropertyBuilder)
    ELSE Appended(pPropertyBuilder,
                  <<propId>> \o encodeString(property, propertyLength),
                  {fieldPosition})

addPropUtf8(pPropertyBuilder, property, propertyLength, propId, fieldPosition, pOptionalMqttPacketType) ==
    IF pPropertyBuilder.null THEN Refused(MQTTBadParameter, pPropertyBuilder)
    ELSE IF pPropertyBuilder.pBuffer.null THEN Refused(MQTTBadParameter, pPropertyBuilder)
    ELSE IF property.null THEN Refused(MQTTBadParameter, pPropertyBuilder)
    ELSE IF propertyLength = 0 THEN Refused(MQTTBadParameter, pPropertyBuilder)
    ELSE IF fieldPosition \in pPropertyBuilder.fieldSet
    THEN Refused(MQTTBadParameter, pPropertyBuilder)
    ELSE IF ~pOptionalMqttPacketType.null
            /\ ~isValidPropertyInPacketType(pOptionalMqttPacketType, fieldPosition)
    THEN Refused(MQTTBadParameter, pPropertyBuilder)
    ELSE IF pPropertyBuilder.currentIndex + 1 + propertyLength + 2
                > pPropertyBuilder.bufferLength
    THEN Refused(MQTTNoMemory, pPropertyBuilder)
    ELSE IF pPropertyBuilder.currentIndex + 1 + propertyLength + 2
                > MQTT_REMAINING_LENGTH_INVALID
    THEN Refused(MQTTBadParameter, pPropertyBuilder)
    ELSE Appended(pPropertyBuilder,
                  <<propId>> \o encodeString(property, propertyLength),
                  {fieldPosition})

MQTTPropAdd_SubscribeId(pPropertyBuilder, subscriptionId, pOptionalMqttPacketType) ==
    IF subscriptionId = 0 THEN Refused(MQTTBadParameter, pPropertyBuilder)
    ELSE IF pPropertyBuilder.null THEN Refused(MQTTBadParameter, pPropertyBuilder)
    ELSE IF pPropertyBuilder.pBuffer.null THEN Refused(MQTTBadParameter, pPropertyBuilder)
    ELSE IF MQTT_SUBSCRIPTION_ID_POS \in pPropertyBuilder.fieldSet
    THEN Refused(MQTTBadParameter, pPropertyBuilder)
    ELSE IF ~pOptionalMqttPacketType.null
            /\ ~isValidPropertyInPacketType(pOptionalMqttPacketType,
                                            MQTT_SUBSCRIPTION_ID_POS)
    THEN Refused(MQTTBadParameter, pPropertyBuilder)
    ELSE IF pPropertyBuilder.currentIndex + 1 + variableLengthEncodedSize(subscriptionId)
                > pPropertyBuilder.bufferLength
    THEN Refused(MQTTNoMemory, pPropertyBuilder)
    ELSE Appended(pPropertyBuilder,
                  <<MQTT_SUBSCRIPTION_ID_ID>> \o encodeVariableLength(subscriptionId),
                  {MQTT_SUBSCRIPTION_ID_POS})

(* A NULL MQTTUserProperty_t *, or one with its four fields.               *)
NullUserProperty == [null |-> TRUE]
UserProperty(pKey, keyLength, pValue, valueLength) ==
    [null |-> FALSE, pKey |-> pKey, keyLength |-> keyLength,
     pValue |-> pValue, valueLength |-> valueLength]

(* MQTTPropAdd_UserProp neither tests nor sets a fieldSet bit.             *)
MQTTPropAdd_UserProp(pPropertyBuilder, userProperty, pOptionalMqttPacketType) ==
    IF pPropertyBuilder.null THEN Refused(MQTTBadParameter, pPropertyBuilder)
    ELSE IF pPropertyBuilder.pBuffer.null THEN Refused(MQTTBadParameter, pPropertyBuilder)
    ELSE IF userProperty.null THEN Refused(MQTTBadParameter, pPropertyBuilder)
    ELSE IF \/ userProperty.pKey.null \/ userProperty.pValue.null
            \/ userProperty.keyLength = 0 \/ userProperty.valueLength = 0
    THEN Refused(MQTTBadParameter, pPropertyBuilder)
    ELSE IF ~pOptionalMqttPacketType.null
            /\ ~isValidPropertyInPacketType(pOptionalMqttPacketType, MQTT_USER_PROP_POS)
    THEN Refused(MQTTBadParameter, pPropertyBuilder)
    ELSE IF pPropertyBuilder.currentIndex + 2 + userProperty.keyLength
                + 2 + userProperty.valueLength + 1 > pPropertyBuilder.bufferLength
    THEN Refused(MQTTNoMemory, pPropertyBuilder)
    ELSE IF pPropertyBuilder.currentIndex + 2 + userProperty.keyLength
                + 2 + userProperty.valueLength + 1 > MQTT_REMAINING_LENGTH_INVALID
    THEN Refused(MQTTBadParameter, pPropertyBuilder)
    ELSE Appended(pPropertyBuilder,
                  <<MQTT_USER_PROPERTY_ID>>
                      \o encodeString(userProperty.pKey, userProperty.keyLength)
                      \o encodeString(userProperty.pValue, userProperty.valueLength),
                  {})

(* The add functions of the property serializer that pass one identifier   *)
(* and one position to one of the four addProp functions; nonZero marks    *)
(* those that first refuse the value 0.                                    *)
PropAdders ==
    [ MQTTPropAdd_SessionExpiry |->
        [add |-> "Uint32", id |-> MQTT_SESSION_EXPIRY_ID,
         pos |-> MQTT_SESSION_EXPIRY_INTERVAL_POS, nonZero |-> FALSE],
      MQTTPropAdd_ReceiveMax |->
        [add |-> "Uint16", id |-> MQTT_RECEIVE_MAX_ID,
         pos |-> MQTT_RECEIVE_MAXIMUM_POS, nonZero |-> TRUE],
      MQTTPropAdd_MaxPacketSize |->
        [add |-> "Uint32", id |-> MQTT_MAX_PACKET_SIZE_ID,
         pos |-> MQTT_MAX_PACKET_SIZE_POS, nonZero |-> TRUE],
      MQTTPropAdd_TopicAliasMax |->
        [add |-> "Uint16", id |-> MQTT_TOPIC_ALIAS_MAX_ID,
         pos |-> MQTT_TOPIC_ALIAS_MAX_POS, nonZero |-> FALSE],
      MQTTPropAdd_RequestRespInfo |->
        [add |-> "Uint8", id |-> MQTT_REQUEST_RESPONSE_ID,
         pos |-> MQTT_REQUEST_RESPONSE_INFO_POS, nonZero |-> FALSE],
      MQTTPropAdd_RequestProbInfo |->
        [add |-> "Uint8", id |-> MQTT_REQUEST_PROBLEM_ID,
         pos |-> MQTT_REQUEST_PROBLEM_INFO_POS, nonZero |-> FALSE],
      MQTTPropAdd_AuthMethod |->
        [add |-> "Utf8", id |-> MQTT_AUTH_METHOD_ID,
         pos |-> MQTT_AUTHENTICATION_METHOD_POS, nonZero |-> FALSE],
      MQTTPropAdd_PayloadFormat |->
        [add |-> "Uint8", id |-> MQTT_PAYLOAD_FORMAT_ID,
         pos |-> MQTT_PAYLOAD_FORMAT_INDICATOR_POS, nonZero |-> FALSE],
      MQTTPropAdd_MessageExpiry |->
        [add |-> "Uint32", id |-> MQTT_MSG_EXPIRY_ID,
         pos |-> MQTT_MESSAGE_EXPIRY_INTERVAL_POS, nonZero |-> FALSE],
      MQTTPropAdd_WillDelayInterval |->
        [add |-> "Uint32", id |-> MQTT_WILL_DELAY_ID,
         pos |-> MQTT_WILL_DELAY_POS, nonZero |-> FALSE],
      MQTTPropAdd_TopicAlias |->
        [add |-> "Uint16", id |-> MQTT_TOPIC_ALIAS_ID,
         pos |-> MQTT_TOPIC_ALIAS_POS, nonZero |-> TRUE],
      MQTTPropAdd_ResponseTopic |->
        [add |-> "Utf8", id |-> MQTT_RESPONSE_TOPIC_ID,
         pos |-> MQTT_RESPONSE_TOPIC_POS, nonZero |-> FALSE],
      MQTTPropAdd_CorrelationData |->
        [add |-> "Utf8", id |-> MQTT_CORRELATION_DATA_ID,
         pos |-> MQTT_CORRELATION_DATA_POS, nonZero |-> FALSE],
      MQTTPropAdd_ContentType |->
        [add |-> "Utf8", id |-> MQTT_CONTENT_TYPE_ID,
         pos |-> MQTT_CONTENT_TYPE_POS, nonZero |-> FALSE],
      MQTTPropAdd_ReasonString |->
        [add |-> "Utf8", id |-> MQTT_REASON_STRING_ID,
         pos |-> MQTT_REASON_STRING_POS, nonZero |-> FALSE] ]

(* A string argument pair: the pointer and the length passed with it.      *)
Str(pointer, length) == [pointer |-> pointer, length |-> length]

(* One of the add functions above, called with a value of its kind: a      *)
(* number, or a Str for the Utf8 kind.                                     *)
(* An argument converted to the bool parameter it is passed for: any       *)
(* value other than 0 becomes true, which ( uint8_t ) turns into 1.        *)
BoolArgument(value) == IF value # 0 THEN 1 ELSE 0

MQTTPropAdd(adder, pPropertyBuilder, value, pOptionalMqttPacketType) ==
    LET a == PropAdders[adder]
    IN IF a.nonZero /\ value = 0 THEN Refused(MQTTBadParameter, pPropertyBuilder)
       ELSE CASE a.add = "Uint8" ->
                   addPropUint8(pPropertyBuilder, BoolArgument(value), a.id, a.pos,
                                pOptionalMqttPacketType)
              [] a.add = "Uint16" ->
                   addPropUint16(pPropertyBuilder, value, a.id, a.pos,
                                 pOptionalMqttPacketType)
              [] a.add = "Uint32" ->
                   addPropUint32(pPropertyBuilder, value, a.id, a.pos,
                                 pOptionalMqttPacketType)
              [] a.add = "Utf8" ->
                   addPropUtf8(pPropertyBuilder, value.pointer, value.length,
                               a.id, a.pos, pOptionalMqttPacketType)

MQTTPropAdd_AuthData_NoMethodCheck(pPropertyBuilder, authData, authDataLength, pOptionalMqttPacketType) ==
    addPropUtf8(pPropertyBuilder, authData, authDataLength, MQTT_AUTH_DATA_ID,
                MQTT_AUTHENTICATION_DATA_POS, pOptionalMqttPacketType)

(* MQTTPropAdd_AuthData reads pPropertyBuilder->fieldSet before anything   *)
(* has tested the pointer; it is applied to builders that exist.           *)
MQTTPropAdd_AuthData(pPropertyBuilder, authData, authDataLength, pOptionalMqttPacketType) ==
    IF MQTT_AUTHENTICATION_METHOD_POS \notin pPropertyBuilder.fieldSet
    THEN Refused(MQTTBadParameter, pPropertyBuilder)
    ELSE addPropUtf8(pPropertyBuilder, authData, authDataLength, MQTT_AUTH_DATA_ID,
                     MQTT_AUTHENTICATION_DATA_POS, pOptionalMqttPacketType)

(***************************************************************************)
(* The add functions of the packet serializer.  Each spells out the same   *)
(* steps for its own identifier and position and asks the serializer's     *)
(* own allow list; they differ in the value they refuse (nonZero: the      *)
(* value 0; noWildcards: a string holding '#' or '+').                     *)
(* MQTTPropAdd_ConnRequestProbInfo stores MQTT_REQUEST_RESPONSE_ID.        *)
(***************************************************************************)
SerializerPropAdders ==
    [ MQTTPropAdd_SessionExpiry |->
        [wire |-> "Uint32", id |-> MQTT_SESSION_EXPIRY_ID,
         pos |-> MQTT_SESSION_EXPIRY_INTERVAL_POS, nonZero |-> FALSE, noWildcards |-> FALSE],
      MQTTPropAdd_ConnReceiveMax |->
        [wire |-> "Uint16", id |-> MQTT_RECEIVE_MAX_ID,
         pos |-> MQTT_RECEIVE_MAXIMUM_POS, nonZero |-> TRUE, noWildcards |-> FALSE],
      MQTTPropAdd_ConnMaxPacketSize |->
        [wire |-> "Uint32", id |-> MQTT_MAX_PACKET_SIZE_ID,
         pos |-> MQTT_MAX_PACKET_SIZE_POS, nonZero |-> TRUE, noWildcards |-> FALSE],
      MQTTPropAdd_ConnTopicAliasMax |->
        [wire |-> "Uint16", id |-> MQTT_TOPIC_ALIAS_MAX_ID,
         pos |-> MQTT_TOPIC_ALIAS_MAX_POS, nonZero |-> FALSE, noWildcards |-> FALSE],
      MQTTPropAdd_ConnRequestRespInfo |->
        [wire |-> "Uint8", id |-> MQTT_REQUEST_RESPONSE_ID,
         pos |-> MQTT_REQUEST_RESPONSE_INFO_POS, nonZero |-> FALSE, noWildcards |-> FALSE],
      MQTTPropAdd_ConnRequestProbInfo |->
        [wire |-> "Uint8", id |-> MQTT_REQUEST_RESPONSE_ID,
         pos |-> MQTT_REQUEST_PROBLEM_INFO_POS, nonZero |-> FALSE, noWildcards |-> FALSE],
      MQTTPropAdd_ConnAuthMethod |->
        [wire |-> "Utf8", id |-> MQTT_AUTH_METHOD_ID,
         pos |-> MQTT_AUTHENTICATION_METHOD_POS, nonZero |-> FALSE, noWildcards |-> FALSE],
      MQTTPropAdd_PubPayloadFormat |->
        [wire |-> "Uint8", id |-> MQTT_PAYLOAD_FORMAT_ID,
         pos |-> MQTT_PAYLOAD_FORMAT_INDICATOR_POS, nonZero |-> FALSE, noWildcards |-> FALSE],
      MQTTPropAdd_PubMessageExpiry |->
        [wire |-> "Uint32", id |-> MQTT_MSG_EXPIRY_ID,
         pos |-> MQTT_MESSAGE_EXPIRY_INTERVAL_POS, nonZero |-> FALSE, noWildcards |-> FALSE],
      MQTTPropAdd_WillDelayInterval |->
        [wire |-> "Uint32", id |-> MQTT_WILL_DELAY_ID,
         pos |-> MQTT_WILL_DELAY_POS, nonZero |-> FALSE, noWildcards |-> FALSE],
      MQTTPropAdd_PubTopicAlias |->
        [wire |-> "Uint16", id |-> MQTT_TOPIC_ALIAS_ID,
         pos |-> MQTT_TOPIC_ALIAS_POS, nonZero |-> TRUE, noWildcards |-> FALSE],
      MQTTPropAdd_PubResponseTopic |->
        [wire |-> "Utf8", id |-> MQTT_RESPONSE_TOPIC_ID,
         pos |-> MQTT_RESPONSE_TOPIC_POS, nonZero |-> FALSE, noWildcards |-> TRUE],
      MQTTPropAdd_PubCorrelationData |->
        [wire |-> "Utf8", id |-> MQTT_CORRELATION_DATA_ID,
         pos |-> MQTT_CORRELATION_DATA_POS, nonZero |-> FALSE, noWildcards |-> FALSE],
      MQTTPropAdd_PubContentType |->
        [wire |-> "Utf8", id |-> MQTT_CONTENT_TYPE_ID,
         pos |-> MQTT_CONTENT_TYPE_POS, nonZero |-> FALSE, noWildcards |-> FALSE],
      MQTTPropAdd_ReasonString |->
        [wire |-> "Utf8", id |-> MQTT_REASON_STRING_ID,
         pos |-> MQTT_REASON_STRING_POS, nonZero |-> FALSE, noWildcards |-> FALSE] ]

(* strchr( s, '#' ) != NULL || strchr( s, '+' ) != NULL                    *)
HasWildcard(pointer, length) ==
    \E i \in 1..length : BytesAt(pointer, length)[i] \in {35, 43}

(* The bytes an add stores for a value of the given wire kind.             *)
PropertyBytes(wire, id, value) ==
    CASE wire = "Uint8" -> <<id, BoolArgument(value)>>
      [] wire = "Uint16" -> <<id, UINT16_HIGH_BYTE(value), UINT16_LOW_BYTE(value)>>
      [] wire = "Uint32" -> <<id>> \o WRITE_UINT32(value)
      [] wire = "Utf8" -> <<id>> \o encodeString(value.pointer, value.length)

serializer_MQTTPropAdd(adder, pPropertyBuilder, value, pOptionalMqttPacketType) ==
    LET a == SerializerPropAdders[adder]
        bytes == PropertyBytes(a.wire, a.id, value)
    IN IF pPropertyBuilder.null THEN Refused(MQTTBadParameter, pPropertyBuilder)
       ELSE IF pPropertyBuilder.pBuffer.null
       THEN Refused(MQTTBadParameter, pPropertyBuilder)
       ELSE IF a.wire = "Utf8" /\ (value.pointer.null \/ value.length = 0)
       THEN Refused(MQTTBadParameter, pPropertyBuilder)
       ELSE IF a.nonZero /\ value = 0 THEN Refused(MQTTBadParameter, pPropertyBuilder)
       ELSE IF a.pos \in pPropertyBuilder.fieldSet
       THEN Refused(MQTTBadParameter, pPropertyBuilder)
       ELSE IF ~pOptionalMqttPacketType.null
               /\ ~serializer_isValidPropertyInPacketType(pOptionalMqttPacketType, a.pos)
       THEN Refused(MQTTBadParameter, pPropertyBuilder)
       ELSE IF a.noWildcards /\ HasWildcard(value.pointer, value.length)
       THEN Refused(MQTTBadParameter, pPropertyBuilder)
       ELSE IF pPropertyBuilder.currentIndex + Len(bytes) > pPropertyBuilder.bufferLength
       THEN Refused(MQTTNoMemory, pPropertyBuilder)
       ELSE Appended(pPropertyBuilder, bytes, {a.pos})

(* MQTTPropAdd_ConnAuthData looks at the room left in the buffer before    *)
(* it looks at the Authentication Method and Authentication Data bits.     *)
serializer_MQTTPropAdd_ConnAuthData(pPropertyBuilder, authData, authDataLength, pOptionalMqttPacketType) ==
    IF pPropertyBuilder.null \/ authData.null \/ authDataLength = 0
    THEN Refused(MQTTBadParameter, pPropertyBuilder)
    ELSE IF pPropertyBuilder.pBuffer.null THEN Refused(MQTTBadParameter, pPropertyBuilder)
    ELSE IF pPropertyBuilder.currentIndex + 1 + authDataLength + 2
                > pPropertyBuilder.bufferLength
    THEN Refused(MQTTNoMemory, pPropertyBuilder)
    ELSE IF MQTT_AUTHENTICATION_METHOD_POS \notin pPropertyBuilder.fieldSet
    THEN Refused(MQTTBadParameter, pPropertyBuilder)
    ELSE IF MQTT_AUTHENTICATION_DATA_POS \in pPropertyBuilder.fieldSet
    THEN Refused(MQTTBadParameter, pPropertyBuilder)
    ELSE IF ~pOptionalMqttPacketType.null
            /\ ~serializer_isValidPropertyInPacketType(pOptionalMqttPacketType,
                                                       MQTT_AUTHENTICATION_DATA_POS)
    THEN Refused(MQTTBadParameter, pPropertyBuilder)
    ELSE Appended(pPropertyBuilder,
                  <<MQTT_AUTH_DATA_ID>> \o encodeString(authData, authDataLength),
                  {MQTT_AUTHENTICATION_DATA_POS})

serializer_MQTTPropAdd_SubscribeId(pPropertyBuilder, subscriptionId, pOptionalMqttPacketType) ==
    IF subscriptionId = 0 THEN Refused(MQTTBadParameter, pPropertyBuilder)
    ELSE IF pPropertyBuilder.null THEN Refused(MQTTBadParameter, pPropertyBuilder)
    ELSE IF pPropertyBuilder.pBuffer.null THEN Refused(MQTTBadParameter, pPropertyBuilder)
    ELSE IF MQTT_SUBSCRIPTION_ID_POS \in pPropertyBuilder.fieldSet
    THEN Refused(MQTTBadParameter, pPropertyBuilder)
    ELSE IF ~pOptionalMqttPacketType.null
            /\ ~serializer_isValidPropertyInPacketType(pOptionalMqttPacketType,
                                                       MQTT_SUBSCRIPTION_ID_POS)
    THEN Refused(MQTTBadParameter, pPropertyBuilder)
    ELSE IF pPropertyBuilder.currentIndex + 1 + variableLengthEncodedSize(subscriptionId)
                > pPropertyBuilder.bufferLength
    THEN Refused(MQTTNoMemory, pPropertyBuilder)
    ELSE Appended(pPropertyBuilder,
                  <<MQTT_SUBSCRIPTION_ID_ID>> \o encodeVariableLength(subscriptionId),
                  {MQTT_SUBSCRIPTION_ID_POS})

serializer_MQTTPropAdd_UserProp(pPropertyBuilder, userProperty, pOptionalMqttPacketType) ==
    IF pPropertyBuilder.null THEN Refused(MQTTBadParameter, pPropertyBuilder)
    ELSE IF pPropertyBuilder.pBuffer.null THEN Refused(MQTTBadParameter, pPropertyBuilder)
    ELSE IF userProperty.null THEN Refused(MQTTBadParameter, pPropertyBuilder)
    ELSE IF \/ userProperty.pKey.null \/ userProperty.pValue.null
            \/ userProperty.keyLength = 0 \/ userProperty.valueLength = 0
    THEN Refused(MQTTBadParameter, pPropertyBuilder)
    ELSE IF ~pOptionalMqttPacketType.null
            /\ ~serializer_isValidPropertyInPacketType(pOptionalMqttPacketType,
                                                       MQTT_USER_PROP_POS)
    THEN Refused(MQTTBadParameter, pPropertyBuilder)
    ELSE IF pPropertyBuilder.currentIndex + userProperty.keyLength
                + userProperty.valueLength + 2 + 2 + 1 > pPropertyBuilder.bufferLength
    THEN Refused(MQTTNoMemory, pPropertyBuilder)
    ELSE Appended(pPropertyBuilder,
                  <<MQTT_USER_PROPERTY_ID>>
                      \o encodeString(userProperty.pKey, userProperty.keyLength)
                      \o encodeString(userProperty.pValue, userProperty.valueLength),
                  {})

(***************************************************************************)
(* State.                                                                  *)
(***************************************************************************)
VARIABLES vbiN, vbiBuf, vbiEncoded, vbiOp, vbiRes,
          serOp, serIn, serSize, serOut,
          desOp, desIn, desArgs, desOut,
          propOp, propIn, propBuilder, propAdded, propLast, propGet

vbiVars == <<vbiN, vbiBuf, vbiEncoded, vbiOp, vbiRes>>
serVars == <<serOp, serIn, serSize, serOut>>
desVars == <<desOp, desIn, desArgs, desOut>>
propVars == <<propOp, propIn, propBuilder, propAdded, propLast, propGet>>
vars == <<vbiN, vbiBuf, vbiEncoded, vbiOp, vbiRes, serOp, serIn, serSize, serOut,
          desOp, desIn, desArgs, desOut,
          propOp, propIn, propBuilder, propAdded, propLast, propGet>>

(* What an operation on one group of variables leaves alone.               *)
nonVbiVars == <<serVars, desVars, propVars>>
nonSerVars == <<vbiVars, desVars, propVars>>
nonDesVars == <<vbiVars, serVars, propVars>>
nonPropVars == <<vbiVars, serVars, desVars>>

NoResult == [status |-> "none"]

(* A run starts either from a value the library is about to encode or     *)
(* from bytes that arrived from the peer.                                  *)
VbiIdle ==
    /\ vbiN = 0
    /\ vbiBuf = <<>>
    /\ vbiEncoded = FALSE
    /\ vbiOp = "idle"
    /\ vbiRes = NoResult

SerIdle ==
    /\ serOp = "idle"
    /\ serIn = [kind |-> "none"]
    /\ serSize = NoResult
    /\ serOut = NoResult

DesIdle ==
    /\ desOp = "idle"
    /\ desIn = [kind |-> "none"]
    /\ desArgs = [kind |-> "none"]
    /\ desOut = NoResult

(* No call on the builder yet.                                             *)
NoCall == [fn |-> "none", value |-> 0, builderArg |-> "none", status |-> "none"]

(* No getter called on the builder's bytes yet.                            *)
NoGet == [getter |-> "none"]

(* A MQTTPropBuilder_t the caller has zeroed and not yet initialised.      *)
ZeroedBuilder ==
    [null |-> FALSE, pBuffer |-> NullPtr, bufferLength |-> 0, currentIndex |-> 0,
     fieldSet |-> {}]

PropIdle ==
    /\ propOp = "idle"
    /\ propIn = [kind |-> "none"]
    /\ propBuilder = ZeroedBuilder
    /\ propAdded = <<>>
    /\ propLast = NoCall
    /\ propGet = NoGet

VbiInit ==
    /\ SerIdle
    /\ DesIdle
    /\ PropIdle
    /\ vbiEncoded = FALSE
    /\ vbiRes = NoResult
    /\ \/ vbiN \in VbiValues /\ vbiBuf = <<>> /\ vbiOp = "value"
       \/ vbiN = 0 /\ vbiBuf \in VbiInputs /\ vbiOp = "receive"

(* encodeRemainingLength( pDestination, vbiN ): the bytes written and the  *)
(* size remainingLengthEncodedSize announced for them.                     *)
EncodeRemainingLength ==
    /\ vbiOp = "value"
    /\ vbiBuf' = encodeRemainingLength(vbiN)
    /\ vbiEncoded' = TRUE
    /\ vbiOp' = "encodeRemainingLength"
    /\ vbiRes' = [status |-> MQTTSuccess, size |-> remainingLengthEncodedSize(vbiN)]
    /\ UNCHANGED vbiN
    /\ UNCHANGED nonVbiVars

DecodeVariableLength ==
    /\ vbiOp \in {"encodeRemainingLength", "receive"}
    /\ vbiRes' = decodeVariableLength(vbiBuf, Len(vbiBuf))
    /\ vbiOp' = "decodeVariableLength"
    /\ UNCHANGED <<vbiN, vbiBuf, vbiEncoded>>
    /\ UNCHANGED nonVbiVars

DecodeVariableLength_private ==
    /\ vbiOp \in {"encodeRemainingLength", "receive"}
    /\ vbiRes' = decodeVariableLength_private(vbiBuf, Len(vbiBuf))
    /\ vbiOp' = "decodeVariableLength_private"
    /\ UNCHANGED <<vbiN, vbiBuf, vbiEncoded>>
    /\ UNCHANGED nonVbiVars

(* Pull mode: the transport delivers a packet type byte, then vbiBuf.      *)
GetIncomingPacketTypeAndLength ==
    /\ vbiOp \in {"encodeRemainingLength", "receive"}
    /\ \E type \in PacketTypeSamples, tail \in {0, -1} :
           vbiRes' = [ MQTT_GetIncomingPacketTypeAndLength(<<type>> \o vbiBuf, tail)
                       EXCEPT !.type = type ]
    /\ vbiOp' = "MQTT_GetIncomingPacketTypeAndLength"
    /\ UNCHANGED <<vbiN, vbiBuf, vbiEncoded>>
    /\ UNCHANGED nonVbiVars

(* Buffered mode: the caller has stored the type byte and the first        *)
(* index - 1 bytes of vbiBuf.                                              *)
ProcessIncomingPacketTypeAndLength ==
    /\ vbiOp \in {"encodeRemainingLength", "receive"}
    /\ \E type \in PacketTypeSamples, index \in 0..(Len(vbiBuf) + 1) :
           vbiRes' = [ MQTT_ProcessIncomingPacketTypeAndLength(<<type>> \o vbiBuf, index)
                       EXCEPT !.type = type ] @@ [index |-> index]
    /\ vbiOp' = "MQTT_ProcessIncomingPacketTypeAndLength"
    /\ UNCHANGED <<vbiN, vbiBuf, vbiEncoded>>
    /\ UNCHANGED nonVbiVars

VbiNext ==
    \/ EncodeRemainingLength
    \/ DecodeVariableLength_private
    \/ GetIncomingPacketTypeAndLength
    \/ ProcessIncomingPacketTypeAndLength
    \/ DecodeVariableLength

SpecVbi == VbiInit /\ [][VbiNext]_vars

(***************************************************************************)
(* Variable Byte Integer properties.                                       *)
(***************************************************************************)
(* The canonical number of bytes of a Variable Byte Integer.               *)
CanonicalSize(n) ==
    IF n < 128 THEN 1 ELSE IF n < 16384 THEN 2 ELSE IF n < 2097152 THEN 3 ELSE 4

(* The calls that decoded the whole of vbiBuf from a packet of a valid     *)
(* type: the in-buffer decoders, pull mode, and buffered mode with every   *)
(* byte of vbiBuf stored.                                                  *)
VbiDecodedValue ==
    IF vbiOp \in {"decodeVariableLength", "decodeVariableLength_private"}
    THEN vbiRes.length
    ELSE vbiRes.remainingLength

VbiDecodedAll ==
    \/ vbiOp \in {"decodeVariableLength", "decodeVariableLength_private"}
    \/ vbiOp = "MQTT_GetIncomingPacketTypeAndLength" /\ incomingPacketValid(vbiRes.type)
    \/ /\ vbiOp = "MQTT_ProcessIncomingPacketTypeAndLength"
       /\ incomingPacketValid(vbiRes.type)
       /\ vbiRes.index = Len(vbiBuf) + 1

(* C1: for every n in 0 .. 268435455 the encoder writes exactly the        *)
(* canonical number of bytes (1 below 128, 2 below 16384, 3 below 2097152, *)
(* else 4), which is the size the size function reports, and decoding the  *)
(* bytes written succeeds and yields n.                                    *)
C1_RoundTrip ==
    vbiEncoded =>
        /\ Len(vbiBuf) = CanonicalSize(vbiN)
        /\ remainingLengthEncodedSize(vbiN) = CanonicalSize(vbiN)
        /\ vbiOp = "encodeRemainingLength" => vbiRes.size = Len(vbiBuf)
        /\ VbiDecodedAll => vbiRes.status = MQTTSuccess /\ VbiDecodedValue = vbiN

C1_Witness ==
    /\ vbiEncoded
    /\ vbiOp = "decodeVariableLength"
    /\ vbiN = MQTT_MAX_REMAINING_LENGTH
    /\ vbiBuf = <<255, 255, 255, 127>>
    /\ vbiRes.status = MQTTSuccess
    /\ vbiRes.length = vbiN

(* The encoding at the head of b does not end within four bytes.           *)
Unterminated4(b) == Len(b) >= 4 /\ \A i \in 1..4 : b[i] >= 128

(* The encoding at the head of b ends at byte k (1-based).                 *)
EndsAt(b, k) == k <= Len(b) /\ b[k] < 128 /\ \A i \in 1..(k - 1) : b[i] >= 128

RECURSIVE GroupsValue(_, _)
GroupsValue(b, k) ==
    IF k = 0 THEN 0 ELSE (b[1] % 128) + 128 * GroupsValue(Tail(b), k - 1)

(* The encoding at the head of b uses more bytes than its value needs.     *)
OverLong(b) == \E k \in 1..4 : EndsAt(b, k) /\ k > CanonicalSize(GroupsValue(b, k))

(* The number of bytes of b a decoder has to see to reject it.             *)
MalformedLength(b) ==
    IF Unterminated4(b) THEN 4 ELSE CHOOSE k \in 1..4 : EndsAt(b, k)

(* C2: every decoder rejects with MQTTBadResponse an encoding whose        *)
(* fourth byte still has the continuation bit set, and an encoding that    *)
(* uses more bytes than the canonical size of its value: the in-buffer     *)
(* decoders, pull mode, and buffered mode once the bytes of the encoding   *)
(* are in the buffer.                                                      *)
C2_RejectsMalformed ==
    (Unterminated4(vbiBuf) \/ OverLong(vbiBuf)) =>
        /\ vbiOp \in {"decodeVariableLength", "decodeVariableLength_private",
                      "MQTT_GetIncomingPacketTypeAndLength"}
               => vbiRes.status = MQTTBadResponse
        /\ (/\ vbiOp = "MQTT_ProcessIncomingPacketTypeAndLength"
            /\ vbiRes.index >= 1 + MalformedLength(vbiBuf))
               => vbiRes.status = MQTTBadResponse

C2_Witness ==
    /\ vbiOp = "MQTT_ProcessIncomingPacketTypeAndLength"
    /\ vbiBuf = <<128, 0>>
    /\ vbiRes.type = MQTT_PACKET_TYPE_CONNACK
    /\ vbiRes.index = 3
    /\ vbiRes.status = MQTTBadResponse

(***************************************************************************)
(* Serialization: a run takes one set of parameters, asks for the packet   *)
(* size, then serializes into a buffer of some size.                       *)
(***************************************************************************)
(* A builder the caller initialised over a 16-byte buffer and filled up    *)
(* to index used.                                                          *)
BuilderWith(bytes, positions) ==
    [null |-> FALSE,
     pBuffer |-> Ptr(bytes \o Untouched(16 - Len(bytes))),
     bufferLength |-> 16, currentIndex |-> Len(bytes), fieldSet |-> positions]

(* No builder, an empty one, one holding Session Expiry Interval = 10.     *)
ConnectPropertySamples ==
    { NullBuilder, BuilderWith(<<>>, {}), BuilderWith(<<17, 0, 0, 0, 10>>, {2}) }

(* No builder, one holding Payload Format Indicator = 1.                   *)
WillPropertySamples == { NullBuilder, BuilderWith(<<1, 1>>, {11}) }

WillSamples ==
    { NullWill }
    \cup [ null : {FALSE}, qos : 0..2, retain : BOOLEAN, dup : {FALSE},
           pTopicName : {NullPtr, Ptr(<<119>>)}, topicNameLength : {1},
           pPayload : {Ptr(<<112, 108>>)}, payloadLength : {0, 2, UINT16_MAX + 1} ]

ConnectInfoSamples ==
    [ cleanSession : BOOLEAN, keepAliveSeconds : {60},
      pClientIdentifier : {NullPtr, Ptr(<<97>>)}, clientIdentifierLength : {0, 1},
      pUserName : {NullPtr, Ptr(<<117>>)}, userNameLength : {1},
      pPassword : {NullPtr, Ptr(<<112, 119>>)}, passwordLength : {2} ]

ConnectInputs ==
    [ kind : {"CONNECT"}, pConnectInfo : ConnectInfoSamples, pWillInfo : WillSamples,
      pConnectProperties : ConnectPropertySamples, pWillProperties : WillPropertySamples ]

(* Topic "t"; payloads "hi", 200 bytes, and the largest payload a QoS 0    *)
(* PUBLISH of that topic can carry, and one byte more.  The last set has   *)
(* the value 3 in the qos field, which MQTTQoS_t does not name.            *)
PublishInfoSamples ==
    [ null : {FALSE}, qos : 0..2, retain : BOOLEAN, dup : BOOLEAN,
      pTopicName : {NullPtr, Ptr(<<116>>)}, topicNameLength : {0, 1},
      pPayload : {NullPtr, Ptr(<<104, 105>>)},
      payloadLength : {0, 2, 200, MQTT_MAX_REMAINING_LENGTH - 8,
                       MQTT_MAX_REMAINING_LENGTH - 7} ]
    \cup [ null : {FALSE}, qos : {3}, retain : {FALSE}, dup : BOOLEAN,
           pTopicName : {Ptr(<<116>>)}, topicNameLength : {1},
           pPayload : {Ptr(<<104, 105>>)}, payloadLength : {2} ]

PacketIdSamples == {0, 1, 258}

PublishInputs ==
    [ kind : {"PUBLISH"}, pPublishInfo : PublishInfoSamples, packetId : PacketIdSamples ]

SubscribeInfoSamples ==
    [ qos : 0..2, pTopicFilter : {NullPtr, Ptr(<<97, 47, 98>>)}, topicFilterLength : {0, 3},
      noLocalOption : BOOLEAN, retainAsPublishedOption : {FALSE},
      retainHandlingOption : {0} ]
    \cup { [ qos |-> 1, pTopicFilter |-> Ptr(<<97, 47, 98>>), topicFilterLength |-> 3,
             noLocalOption |-> FALSE, retainAsPublishedOption |-> TRUE,
             retainHandlingOption |-> 2 ] }

SubscriptionInputs ==
    [ kind : {"SUBSCRIBE", "UNSUBSCRIBE"},
      pSubscriptionList : SeqsUpTo(SubscribeInfoSamples, MaxSubscriptions),
      packetId : {0, 1} ]

AckInputs ==
    [ kind : {"ACK"},
      packetType : { MQTT_PACKET_TYPE_PUBACK, MQTT_PACKET_TYPE_PUBREC,
                     MQTT_PACKET_TYPE_PUBREL, MQTT_PACKET_TYPE_PUBCOMP,
                     MQTT_PACKET_TYPE_SUBACK },
      packetId : PacketIdSamples ]

(* Buffer sizes around the size a packet needs, within the buffers the     *)
(* model hands out.                                                        *)
BufferSizes(packetSize) ==
    { n \in {0, packetSize - 2, packetSize - 1, packetSize, packetSize + 1} :
        n >= 0 /\ n <= MaxBufferSize }

SerInit ==
    /\ VbiIdle
    /\ DesIdle
    /\ PropIdle
    /\ serOp = "input"
    /\ serIn \in ConnectInputs \cup PublishInputs \cup SubscriptionInputs \cup AckInputs
                 \cup { [kind |-> "PINGREQ"], [kind |-> "DISCONNECT"] }
    /\ serSize = NoResult
    /\ serOut = NoResult

GetConnectPacketSize ==
    /\ serOp = "input"
    /\ serIn.kind = "CONNECT"
    /\ serSize' = MQTT_GetConnectPacketSize(serIn.pConnectInfo, serIn.pWillInfo,
                                            serIn.pConnectProperties, serIn.pWillProperties)
    /\ serOp' = "MQTT_GetConnectPacketSize"
    /\ UNCHANGED <<serIn, serOut>>
    /\ UNCHANGED nonSerVars

SerializeConnect ==
    /\ serOp = "MQTT_GetConnectPacketSize"
    /\ serSize.status = MQTTSuccess
    /\ \E size \in BufferSizes(serSize.packetSize) :
           serOut' = MQTT_SerializeConnect(serIn.pConnectInfo, serIn.pWillInfo,
                                           serSize.remainingLength, size)
                     @@ [size |-> size]
    /\ serOp' = "MQTT_SerializeConnect"
    /\ UNCHANGED <<serIn, serSize>>
    /\ UNCHANGED nonSerVars

GetPublishPacketSize ==
    /\ serOp = "input"
    /\ serIn.kind = "PUBLISH"
    /\ serSize' = MQTT_GetPublishPacketSize(serIn.pPublishInfo)
    /\ serOp' = "MQTT_GetPublishPacketSize"
    /\ UNCHANGED <<serIn, serOut>>
    /\ UNCHANGED nonSerVars

SerializePublish ==
    /\ serOp = "MQTT_GetPublishPacketSize"
    /\ serSize.status = MQTTSuccess
    /\ \E size \in BufferSizes(serSize.packetSize) :
           serOut' = MQTT_SerializePublish(serIn.pPublishInfo, serIn.packetId,
                                           serSize.remainingLength, size)
                     @@ [size |-> size]
    /\ serOp' = "MQTT_SerializePublish"
    /\ UNCHANGED <<serIn, serSize>>
    /\ UNCHANGED nonSerVars

SerializePublishHeader ==
    /\ serOp = "MQTT_GetPublishPacketSize"
    /\ serSize.status = MQTTSuccess
    /\ \E size \in BufferSizes(serSize.packetSize)
                    \cup BufferSizes(serSize.packetSize
                                     - serIn.pPublishInfo.payloadLength) :
           serOut' = MQTT_SerializePublishHeader(serIn.pPublishInfo, serIn.packetId,
                                                 serSize.remainingLength, size)
                     @@ [size |-> size]
    /\ serOp' = "MQTT_SerializePublishHeader"
    /\ UNCHANGED <<serIn, serSize>>
    /\ UNCHANGED nonSerVars

GetSubscribePacketSize ==
    /\ serOp = "input"
    /\ serIn.kind = "SUBSCRIBE"
    /\ serSize' = MQTT_GetSubscribePacketSize(serIn.pSubscriptionList)
    /\ serOp' = "MQTT_GetSubscribePacketSize"
    /\ UNCHANGED <<serIn, serOut>>
    /\ UNCHANGED nonSerVars

SerializeSubscribe ==
    /\ serOp = "MQTT_GetSubscribePacketSize"
    /\ serSize.status = MQTTSuccess
    /\ \E size \in BufferSizes(serSize.packetSize) :
           serOut' = MQTT_SerializeSubscribe(serIn.pSubscriptionList, serIn.packetId,
                                             serSize.remainingLength, size)
                     @@ [size |-> size]
    /\ serOp' = "MQTT_SerializeSubscribe"
    /\ UNCHANGED <<serIn, serSize>>
    /\ UNCHANGED nonSerVars

GetUnsubscribePacketSize ==
    /\ serOp = "input"
    /\ serIn.kind = "UNSUBSCRIBE"
    /\ serSize' = MQTT_GetUnsubscribePacketSize(serIn.pSubscriptionList)
    /\ serOp' = "MQTT_GetUnsubscribePacketSize"
    /\ UNCHANGED <<serIn, serOut>>
    /\ UNCHANGED nonSerVars

SerializeUnsubscribe ==
    /\ serOp = "MQTT_GetUnsubscribePacketSize"
    /\ serSize.status = MQTTSuccess
    /\ \E size \in BufferSizes(serSize.packetSize) :
           serOut' = MQTT_SerializeUnsubscribe(serIn.pSubscriptionList, serIn.packetId,
                                               serSize.remainingLength, size)
                     @@ [size |-> size]
    /\ serOp' = "MQTT_SerializeUnsubscribe"
    /\ UNCHANGED <<serIn, serSize>>
    /\ UNCHANGED nonSerVars

(* A publish ack has no size call: its size is MQTT_PUBLISH_ACK_PACKET_SIZE. *)
SerializeAck ==
    /\ serOp = "input"
    /\ serIn.kind = "ACK"
    /\ \E size \in BufferSizes(MQTT_PUBLISH_ACK_PACKET_SIZE) :
           serOut' = MQTT_SerializeAck(size, serIn.packetType, serIn.packetId)
                     @@ [size |-> size]
    /\ serOp' = "MQTT_SerializeAck"
    /\ UNCHANGED <<serIn, serSize>>
    /\ UNCHANGED nonSerVars

GetPingreqPacketSize ==
    /\ serOp = "input"
    /\ serIn.kind = "PINGREQ"
    /\ serSize' = MQTT_GetPingreqPacketSize
    /\ serOp' = "MQTT_GetPingreqPacketSize"
    /\ UNCHANGED <<serIn, serOut>>
    /\ UNCHANGED nonSerVars

SerializePingreq ==
    /\ serOp = "MQTT_GetPingreqPacketSize"
    /\ \E size \in BufferSizes(serSize.packetSize) :
           serOut' = MQTT_SerializePingreq(size) @@ [size |-> size]
    /\ serOp' = "MQTT_SerializePingreq"
    /\ UNCHANGED <<serIn, serSize>>
    /\ UNCHANGED nonSerVars

GetDisconnectPacketSize ==
    /\ serOp = "input"
    /\ serIn.kind = "DISCONNECT"
    /\ serSize' = MQTT_GetDisconnectPacketSize
    /\ serOp' = "MQTT_GetDisconnectPacketSize"
    /\ UNCHANGED <<serIn, serOut>>
    /\ UNCHANGED nonSerVars

SerializeDisconnect ==
    /\ serOp = "MQTT_GetDisconnectPacketSize"
    /\ \E size \in BufferSizes(serSize.packetSize) :
           serOut' = MQTT_SerializeDisconnect(size) @@ [size |-> size]
    /\ serOp' = "MQTT_SerializeDisconnect"
    /\ UNCHANGED <<serIn, serSize>>
    /\ UNCHANGED nonSerVars

SerNext ==
    \/ GetConnectPacketSize
    \/ SerializeConnect
    \/ GetPublishPacketSize
    \/ SerializePublish
    \/ SerializePublishHeader
    \/ GetSubscribePacketSize
    \/ SerializeSubscribe
    \/ GetUnsubscribePacketSize
    \/ SerializeUnsubscribe
    \/ SerializeAck
    \/ GetPingreqPacketSize
    \/ SerializePingreq
    \/ GetDisconnectPacketSize
    \/ SerializeDisconnect

SpecSer == SerInit /\ [][SerNext]_vars

(***************************************************************************)
(* Serialization properties.                                               *)
(***************************************************************************)
(* The number of bytes of the fixed header of a written packet: the type   *)
(* byte and the Remaining Length field.                                    *)
FixedHeaderLength(remainingLength) == 1 + CanonicalSize(remainingLength)

(* C3: whenever MQTT_GetConnectPacketSize succeeded and MQTT_SerializeConnect *)
(* then succeeds with the Remaining Length it returned, the packet size    *)
(* returned is the number of bytes written and the Remaining Length is the *)
(* number of bytes written after the fixed header.                         *)
C3_ConnectSizeIsBytesWritten ==
    (serOp = "MQTT_SerializeConnect" /\ serOut.status = MQTTSuccess) =>
        /\ Len(serOut.written) = serSize.packetSize
        /\ Len(serOut.written) - FixedHeaderLength(serSize.remainingLength)
               = serSize.remainingLength

(* Parameters a caller that follows the API passes.                        *)
WellFormedPublish(in) ==
    /\ ~in.pPublishInfo.pTopicName.null /\ in.pPublishInfo.topicNameLength > 0
    /\ in.pPublishInfo.payloadLength > 0 => ~in.pPublishInfo.pPayload.null
    /\ in.pPublishInfo.qos > 0 => in.packetId # 0
    /\ in.pPublishInfo.dup => in.pPublishInfo.qos > 0

WellFormedSubscription(in) ==
    /\ Len(in.pSubscriptionList) > 0
    /\ \A i \in 1..Len(in.pSubscriptionList) :
           /\ ~in.pSubscriptionList[i].pTopicFilter.null
           /\ in.pSubscriptionList[i].topicFilterLength > 0
    /\ in.packetId # 0

(* C4: for a well-formed PUBLISH, SUBSCRIBE or UNSUBSCRIBE whose size call *)
(* succeeded, the serialize call given a buffer of at least the packet     *)
(* size succeeds, and whenever it succeeds the bytes it wrote are as many  *)
(* as the packet size the size call returned.                              *)
C4_SizeIsBytesWritten ==
    /\ serOp = "MQTT_SerializePublish" =>
           /\ (WellFormedPublish(serIn) /\ serOut.size >= serSize.packetSize)
                  => serOut.status = MQTTSuccess
           /\ serOut.status = MQTTSuccess => Len(serOut.written) = serSize.packetSize
    /\ serOp \in {"MQTT_SerializeSubscribe", "MQTT_SerializeUnsubscribe"} =>
           /\ (WellFormedSubscription(serIn) /\ serOut.size >= serSize.packetSize)
                  => serOut.status = MQTTSuccess
           /\ serOut.status = MQTTSuccess => Len(serOut.written) = serSize.packetSize

C4_Witness ==
    /\ serOp = "MQTT_SerializePublish"
    /\ serIn.pPublishInfo.qos = 1
    /\ serIn.pPublishInfo.payloadLength = 200
    /\ serOut.status = MQTTSuccess
    /\ serSize.packetSize = 208
    /\ Len(serOut.written) = 208

SerializeOps ==
    { "MQTT_SerializeConnect", "MQTT_SerializePublish", "MQTT_SerializePublishHeader",
      "MQTT_SerializeSubscribe", "MQTT_SerializeUnsubscribe", "MQTT_SerializeAck",
      "MQTT_SerializePingreq", "MQTT_SerializeDisconnect" }

(* The size the matching size call computed for the parameters.            *)
ComputedSize ==
    IF serOp = "MQTT_SerializeAck" THEN MQTT_PUBLISH_ACK_PACKET_SIZE
    ELSE serSize.packetSize

ParametersAccepted ==
    CASE serOp = "MQTT_SerializeConnect" ->
             serIn.pWillInfo.null \/ ~serIn.pWillInfo.pTopicName.null
      [] serOp = "MQTT_SerializePublish" -> WellFormedPublish(serIn)
      [] serOp = "MQTT_SerializePublishHeader" ->
             /\ ~serIn.pPublishInfo.pTopicName.null
             /\ serIn.pPublishInfo.topicNameLength > 0
             /\ serIn.pPublishInfo.qos > 0 => serIn.packetId # 0
             /\ serIn.pPublishInfo.dup => serIn.pPublishInfo.qos > 0
      [] serOp \in {"MQTT_SerializeSubscribe", "MQTT_SerializeUnsubscribe"} ->
             Len(serIn.pSubscriptionList) > 0 /\ serIn.packetId # 0
      [] OTHER -> TRUE

(* The bytes the call has to write: the whole packet, or for the PUBLISH   *)
(* header the packet without its payload.                                  *)
RequiredSize ==
    IF serOp = "MQTT_SerializePublishHeader"
    THEN serSize.packetSize - serIn.pPublishInfo.payloadLength
    ELSE ComputedSize

MaxProperties == 2

(* Encoded properties as a server sends them in a CONNACK: Session Expiry  *)
(* Interval 5, Receive Maximum 10 and 0, Maximum QoS 2, Maximum Packet     *)
(* Size 0, User Property ("k", "v"), Response Information "r", and a pair  *)
(* with the unassigned identifier 0x30.                                    *)
ConnackPropertyBytes ==
    { <<17, 0, 0, 0, 5>>, <<33, 0, 10>>, <<33, 0, 0>>, <<36, 2>>, <<39, 0, 0, 0, 0>>,
      <<38, 0, 1, 107, 0, 1, 118>>, <<26, 0, 1, 114>>, <<48, 0>> }

(* Flags and reason code of a CONNACK: accepted, session present, refused  *)
(* with 0x80, session present with a refusal, a reserved flag, an          *)
(* unassigned reason code, refused with 0x87, and the code 0x8B that no    *)
(* CONNACK carries.                                                        *)
ConnackHeaders ==
    { <<0, 0>>, <<1, 0>>, <<0, 128>>, <<1, 128>>, <<2, 0>>, <<0, 1>>, <<0, 135>>, <<0, 139>> }

(* Encoded properties for the reader: Payload Format Indicator 1, Topic    *)
(* Alias 7, Content Type "c", Subscription Identifier 300, Maximum Packet  *)
(* Size 256, User Property ("k", "v"), and a pair with the unassigned      *)
(* identifier 0x30.                                                        *)
ReaderPropertyBytes ==
    { <<1, 1>>, <<35, 0, 7>>, <<3, 0, 1, 99>>, <<11, 172, 2>>, <<39, 0, 0, 1, 0>>,
      <<38, 0, 1, 107, 0, 1, 118>>, <<48, 0>> }

RECURSIVE Concat(_)
Concat(seqs) == IF seqs = <<>> THEN <<>> ELSE Head(seqs) \o Concat(Tail(seqs))

(* Property blocks of up to MaxProperties encoded properties.              *)
PropertyBlocks(samples) == { Concat(ps) : ps \in SeqsUpTo(samples, MaxProperties) }

(* A block behind its length field.                                        *)
WithLength(block) == encodeVariableLength(Len(block)) \o block

(* One well-formed encoding of every property the CONNACK parser knows:    *)
(* Session Expiry Interval 5, Receive Maximum 10, Maximum QoS 1, Retain    *)
(* Available 1, Maximum Packet Size 256, Assigned Client Identifier "c",   *)
(* Topic Alias Maximum 3, Reason String "x", User Property ("k", "v"),     *)
(* Wildcard, Subscription Identifier and Shared Subscription Available 1,  *)
(* Server Keep Alive 60, Response Information "r", Server Reference "s",   *)
(* Authentication Method "m" and Authentication Data "d".                  *)
ConnackKnownProperties ==
    { <<17, 0, 0, 0, 5>>, <<33, 0, 10>>, <<36, 1>>, <<37, 1>>, <<39, 0, 0, 1, 0>>,
      <<18, 0, 1, 99>>, <<34, 0, 3>>, <<31, 0, 1, 120>>, <<38, 0, 1, 107, 0, 1, 118>>,
      <<40, 1>>, <<41, 1>>, <<42, 1>>, <<19, 0, 60>>, <<26, 0, 1, 114>>,
      <<28, 0, 1, 115>>, <<21, 0, 1, 109>>, <<22, 0, 1, 100>> }

(* CONNACK remaining data: flags, reason code, property block.  An         *)
(* accepted CONNACK comes with every block and with every known property,  *)
(* once and twice; the others with the blocks of at most one property.     *)
(* Two come with bytes behind the end of the block: an empty block and a   *)
(* Receive Maximum, each followed by a Maximum QoS.  One carries Retain    *)
(* Available 2, alone and behind a Session Expiry Interval.                *)
ConnackData ==
    { <<0, 0>> \o WithLength(b) : b \in PropertyBlocks(ConnackPropertyBytes) }
    \cup { <<0, 0>> \o WithLength(b) :
               b \in ConnackKnownProperties \cup { p \o p : p \in ConnackKnownProperties } }
    \cup { <<0, 0, 0, 36, 1>>, <<0, 0, 3, 33, 0, 10, 36, 1>> }
    \cup { <<0, 0, 2, 37, 2>>, <<0, 0, 7, 17, 0, 0, 0, 5, 37, 2>> }
    \cup { h \o WithLength(b) : h \in ConnackHeaders,
                                b \in ConnackPropertyBytes \cup { <<>> } }

(* PUBLISH remaining data in the MQTT 5.0 layout: topic, packet identifier *)
(* when the QoS bits are not 00, property block, payload.                  *)
PublishTypes == { 48, 49, 50, 52, 54, 59 }

PublishData(type) ==
    { <<0, Len(topic)>> \o topic \o id \o props \o payload :
        topic \in { <<>>, <<116>>, <<97, 47, 98>> },
        id \in IF (type \div 2) % 4 = 0 THEN { <<>> } ELSE { <<0, 0>>, <<0, 1>>, <<1, 2>> },
        props \in { <<0>>, <<2, 1, 1>>, <<5, 1, 1>>, <<7, 3, 0, 9, 99>> },
        payload \in { <<>>, <<104, 105>> } }

(* SUBACK and UNSUBACK remaining data: packet identifier, property block,  *)
(* reason codes.                                                           *)
SubackData ==
    { id \o props \o codes :
        id \in { <<0, 0>>, <<0, 1>> },
        props \in { <<0>>, <<2, 31, 0>>, <<4, 31, 0, 9, 120>>, <<4, 31, 0, 1, 120>> },
        codes \in { <<0>>, <<1, 2>>, <<0, 128>>, <<135>>, <<3>> } }

(* PUBACK, PUBREC, PUBREL, PUBCOMP remaining data: the short form and the  *)
(* form with reason code and property block.                               *)
SimpleAckData ==
    { <<0, 1>>, <<0, 0>>, <<1, 2>>, <<0, 1, 0, 0>>, <<0, 1, 16, 0>>, <<0, 0, 0, 0>>,
      <<0, 1, 0, 4, 31, 0, 1, 120>>, <<0, 1, 0, 9, 31, 0, 1, 120>> }

AckTypes ==
    { MQTT_PACKET_TYPE_PUBACK, MQTT_PACKET_TYPE_PUBREC, MQTT_PACKET_TYPE_PUBREL,
      MQTT_PACKET_TYPE_PUBCOMP, MQTT_PACKET_TYPE_UNSUBACK }

(* A framed packet: the transport supplies the first remainingLength bytes *)
(* of `data'; whatever follows them in the network buffer is not part of   *)
(* the packet.                                                             *)
PacketInfo(type, data, remainingLength) ==
    [null |-> FALSE, type |-> type, pRemainingData |-> Ptr(data),
     remainingLength |-> remainingLength]

Framed(type, dataSet) ==
    UNION { { PacketInfo(type, data, n) : n \in 0 .. Len(data) } : data \in dataSet }

DesPackets ==
    Framed(MQTT_PACKET_TYPE_CONNACK, ConnackData)
    \cup UNION { Framed(type, PublishData(type)) : type \in PublishTypes }
    \cup Framed(MQTT_PACKET_TYPE_SUBACK, SubackData)
    \cup UNION { Framed(type, SimpleAckData) : type \in AckTypes }
    \cup { PacketInfo(MQTT_PACKET_TYPE_PINGRESP, <<>>, 0),
           PacketInfo(MQTT_PACKET_TYPE_PINGRESP, <<0>>, 1),
           PacketInfo(MQTT_PACKET_TYPE_DISCONNECT, <<0, 0>>, 2),
           [null |-> FALSE, type |-> MQTT_PACKET_TYPE_PUBACK, pRemainingData |-> NullPtr,
            remainingLength |-> 2],
           NullArg }

(* Blocks for the reader: the block is the first currentIndex bytes of the *)
(* buffer, which ends somewhere in the last property or after it;          *)
(* `starts' are the indices at which the properties begin.                 *)
ReaderBlock(properties, currentIndex) ==
    [ kind |-> "block",
      pPropertyBuilder |-> [null |-> FALSE, pBuffer |-> Ptr(Concat(properties)),
                            bufferLength |-> Len(Concat(properties)),
                            currentIndex |-> currentIndex, fieldSet |-> {}],
      starts |-> { Len(Concat(SubSeq(properties, 1, k))) : k \in 0 .. Len(properties) - 1 } ]

ReaderBlocks ==
    UNION { { ReaderBlock(ps, n) :
                  n \in Len(Concat(SubSeq(ps, 1, Len(ps) - 1))) .. Len(Concat(ps)) } :
            ps \in SeqsUpTo(ReaderPropertyBytes, MaxProperties) \ { <<>> } }
    \cup { [ kind |-> "block", pPropertyBuilder |-> NullBuilder, starts |-> {0} ],
           [ kind |-> "block",
             pPropertyBuilder |-> [null |-> FALSE, pBuffer |-> NullPtr, bufferLength |-> 0,
                                   currentIndex |-> 0, fieldSet |-> {}],
             starts |-> {0} ] }

DesInit ==
    /\ VbiIdle
    /\ SerIdle
    /\ PropIdle
    /\ desOp = "input"
    /\ \/ desIn \in [ kind : {"packet"}, pIncomingPacket : DesPackets ]
       \/ desIn \in ReaderBlocks
    /\ desArgs = [kind |-> "none"]
    /\ desOut = NoResult

(* An output slot of the caller.                                           *)
Slot == [null |-> FALSE]

(* The arguments an application passes with a CONNACK: the properties as   *)
(* MQTT_InitConnect left them, with Response Information requested, with   *)
(* a maximum packet size of 8 and of 0; no property buffer; a NULL slot.   *)
ConnAckArgs ==
    LET arg(session, builder, properties) ==
            [pSessionPresent |-> session, pPropBuffer |-> builder,
             pConnectProperties |-> properties]
        builder == MQTTPropertyBuilder_Init(Ptr(Untouched(4)), 4).builder
    IN { arg(Slot, builder, MQTT_InitConnect),
         arg(Slot, builder, [MQTT_InitConnect EXCEPT !.requestResponseInfo = TRUE]),
         arg(Slot, NullBuilder, MQTT_InitConnect),
         arg(Slot, builder, [MQTT_InitConnect EXCEPT !.maxPacketSize = 8]),
         arg(Slot, builder, [MQTT_InitConnect EXCEPT !.maxPacketSize = 0]),
         arg(NullArg, builder, MQTT_InitConnect),
         arg(Slot, builder, NullArg) }

DeserializeConnAck ==
    /\ desOp = "input"
    /\ desIn.kind = "packet"
    /\ \E args \in ConnAckArgs :
          /\ desArgs' = args
          /\ desOut' = MQTT_DeserializeConnAck(desIn.pIncomingPacket, args.pSessionPresent,
                                               args.pPropBuffer, args.pConnectProperties)
    /\ desOp' = "MQTT_DeserializeConnAck"
    /\ UNCHANGED desIn
    /\ UNCHANGED nonDesVars

DeserializePublish ==
    /\ desOp = "input"
    /\ desIn.kind = "packet"
    /\ \E args \in [ pPacketId : {Slot, NullArg}, pPublishInfo : {Slot, NullArg} ] :
          /\ desArgs' = args
          /\ desOut' = MQTT_DeserializePublish(desIn.pIncomingPacket, args.pPacketId,
                                               args.pPublishInfo)
    /\ desOp' = "MQTT_DeserializePublish"
    /\ UNCHANGED desIn
    /\ UNCHANGED nonDesVars

DeserializeAck ==
    /\ desOp = "input"
    /\ desIn.kind = "packet"
    /\ \E args \in [ pPacketId : {Slot, NullArg}, pSessionPresent : {Slot, NullArg} ] :
          /\ desArgs' = args
          /\ desOut' = MQTT_DeserializeAck(desIn.pIncomingPacket, args.pPacketId,
                                           args.pSessionPresent)
    /\ desOp' = "MQTT_DeserializeAck"
    /\ UNCHANGED desIn
    /\ UNCHANGED nonDesVars

(* The cursors an application holds: the start of a property, the end of  *)
(* the buffer, or none.                                                    *)
Cursors(block) ==
    { [null |-> TRUE] }
    \cup { Cursor(i) : i \in block.starts }
    \cup IF block.pPropertyBuilder.null
         THEN {}
         ELSE { Cursor(block.pPropertyBuilder.bufferLength) }

ReaderArgs(block, getters) ==
    [ getter : getters, currentIndex : Cursors(block), property : {Slot} ]
    \cup [ getter : getters, currentIndex : { Cursor(0) }, property : {NullArg} ]

GetNextPropertyType ==
    /\ desOp = "input"
    /\ desIn.kind = "block"
    /\ \E args \in ReaderArgs(desIn, {"MQTT_GetNextPropertyType"}) :
          /\ desArgs' = args
          /\ desOut' = MQTT_GetNextPropertyType(desIn.pPropertyBuilder, args.currentIndex,
                                                args.property)
    /\ desOp' = "MQTT_GetNextPropertyType"
    /\ UNCHANGED desIn
    /\ UNCHANGED nonDesVars

PropGet ==
    /\ desOp = "input"
    /\ desIn.kind = "block"
    /\ \E args \in ReaderArgs(desIn, DOMAIN PropGetters) :
          /\ desArgs' = args
          /\ desOut' = MQTTPropGet(args.getter, desIn.pPropertyBuilder, args.currentIndex,
                                   args.property)
    /\ desOp' = "MQTTPropGet"
    /\ UNCHANGED desIn
    /\ UNCHANGED nonDesVars

PropGet_UserProp ==
    /\ desOp = "input"
    /\ desIn.kind = "block"
    /\ \E args \in ReaderArgs(desIn, {"MQTTPropGet_UserProp"}) :
          /\ desArgs' = args
          /\ desOut' = MQTTPropGet_UserProp(desIn.pPropertyBuilder, args.currentIndex,
                                            args.property)
    /\ desOp' = "MQTTPropGet_UserProp"
    /\ UNCHANGED desIn
    /\ UNCHANGED nonDesVars

PropGet_SubscriptionId ==
    /\ desOp = "input"
    /\ desIn.kind = "block"
    /\ \E args \in ReaderArgs(desIn, {"MQTTPropGet_SubscriptionId"}) :
          /\ desArgs' = args
          /\ desOut' = MQTTPropGet_SubscriptionId(desIn.pPropertyBuilder, args.currentIndex,
                                                  args.property)
    /\ desOp' = "MQTTPropGet_SubscriptionId"
    /\ UNCHANGED desIn
    /\ UNCHANGED nonDesVars

DesNext ==
    \/ DeserializeConnAck
    \/ DeserializePublish
    \/ DeserializeAck
    \/ GetNextPropertyType
    \/ PropGet
    \/ PropGet_UserProp
    \/ PropGet_SubscriptionId

SpecDeser == DesInit /\ [][DesNext]_vars

(***************************************************************************)
(* Truncated input.  The layouts below are those of MQTT 5.0: a UTF-8      *)
(* string is a 16-bit length and that many bytes, a property block is a    *)
(* variable byte integer and that many bytes.                              *)
(***************************************************************************)
(* The bytes the caller supplied.                                          *)
Supplied ==
    IF desIn.kind = "packet"
    THEN SubSeq(desIn.pIncomingPacket.pRemainingData.data, 1,
                desIn.pIncomingPacket.remainingLength)
    ELSE SubSeq(desIn.pPropertyBuilder.pBuffer.data, 1, desIn.pPropertyBuilder.currentIndex)

From(b, off) == SubSeq(b, off + 1, Len(b))

(* A string whose length field at offset off is present and promises more  *)
(* bytes than b holds.                                                     *)
Utf8Exceeds(b, off) ==
    /\ off + 2 <= Len(b)
    /\ off + 2 + b[off + 1] * 256 + b[off + 2] > Len(b)

(* A property block whose length field at offset off is present and        *)
(* promises more bytes than b holds.                                       *)
BlockExceeds(b, off) ==
    \E k \in 1..4 : /\ EndsAt(From(b, off), k)
                    /\ off + k + GroupsValue(From(b, off), k) > Len(b)

(* Wire types of the property identifiers.                                 *)
U8Ids == { 1, 23, 25, 36, 37, 40, 41, 42 }
U16Ids == { 19, 33, 34, 35 }
U32Ids == { 2, 17, 24, 39 }
Utf8Ids == { 3, 8, 9, 18, 21, 22, 26, 28, 31 }

(* The property at offset off of b has its identifier in b and a value     *)
(* that runs past the end of b.                                            *)
ValueExceeds(b, off) ==
    /\ off < Len(b)
    /\ LET id == b[off + 1]
       IN \/ id \in U8Ids /\ off + 2 > Len(b)
          \/ id \in U16Ids /\ off + 3 > Len(b)
          \/ id \in U32Ids /\ off + 5 > Len(b)
          \/ id \in Utf8Ids /\ (off + 3 > Len(b) \/ Utf8Exceeds(b, off + 1))
          \/ id = MQTT_USER_PROPERTY_ID
               /\ \/ off + 3 > Len(b)
                  \/ Utf8Exceeds(b, off + 1)
                  \/ LET value == off + 3 + b[off + 2] * 256 + b[off + 3]
                     IN value + 2 > Len(b) \/ Utf8Exceeds(b, value)
          \/ id = MQTT_SUBSCRIPTION_ID_ID
               /\ \A k \in 1..4 : ~EndsAt(From(b, off + 1), k)

(* The getter of each identifier the reader has a getter for.              *)
GetterOf ==
    [ id \in U8Ids \cup U16Ids \cup U32Ids \cup Utf8Ids |->
        CASE id = 1 -> "MQTTPropGet_PayloadFormatIndicator"
          [] id = 2 -> "MQTTPropGet_MessageExpiryInterval"
          [] id = 3 -> "MQTTPropGet_ContentType"
          [] id = 8 -> "MQTTPropGet_ResponseTopic"
          [] id = 9 -> "MQTTPropGet_CorrelationData"
          [] id = 17 -> "MQTTPropGet_SessionExpiry"
          [] id = 18 -> "MQTTPropGet_AssignedClientId"
          [] id = 19 -> "MQTTPropGet_ServerKeepAlive"
          [] id = 21 -> "MQTTPropGet_AuthMethod"
          [] id = 22 -> "MQTTPropGet_AuthData"
          [] id = 26 -> "MQTTPropGet_ResponseInfo"
          [] id = 28 -> "MQTTPropGet_ServerRef"
          [] id = 31 -> "MQTTPropGet_ReasonString"
          [] id = 33 -> "MQTTPropGet_ReceiveMax"
          [] id = 34 -> "MQTTPropGet_TopicAliasMax"
          [] id = 35 -> "MQTTPropGet_TopicAlias"
          [] id = 36 -> "MQTTPropGet_MaxQos"
          [] id = 37 -> "MQTTPropGet_RetainAvailable"
          [] id = 39 -> "MQTTPropGet_MaxPacketSize"
          [] id = 40 -> "MQTTPropGet_WildcardId"
          [] id = 41 -> "MQTTPropGet_SubsIdAvailable"
          [] id = 42 -> "MQTTPropGet_SharedSubAvailable"
          [] OTHER -> "none" ]

(* A parser was called on a packet of one of `types' with every argument   *)
(* it requires.                                                            *)
PacketParsed(op, types) ==
    /\ desOp = op
    /\ ~desIn.pIncomingPacket.null
    /\ ~desIn.pIncomingPacket.pRemainingData.null
    /\ desIn.pIncomingPacket.type \in types
    /\ \A name \in DOMAIN desArgs : name # "pPropBuffer" => ~desArgs[name].null
    /\ op = "MQTT_DeserializeConnAck"
           => desArgs.pConnectProperties.maxPacketSize = MQTT_MAX_PACKET_SIZE

(* A getter was called with every argument it requires, the cursor on a    *)
(* property of the block, and it is the getter of that property.           *)
PropertyRead ==
    /\ desOp \in {"MQTTPropGet", "MQTTPropGet_UserProp", "MQTTPropGet_SubscriptionId"}
    /\ ~desIn.pPropertyBuilder.null
    /\ ~desIn.pPropertyBuilder.pBuffer.null
    /\ ~desArgs.currentIndex.null
    /\ ~desArgs.property.null
    /\ desArgs.currentIndex.index < Len(Supplied)
    /\ LET id == Supplied[desArgs.currentIndex.index + 1]
       IN \/ desOp = "MQTTPropGet" /\ id \in DOMAIN GetterOf /\ desArgs.getter = GetterOf[id]
          \/ desOp = "MQTTPropGet_UserProp" /\ id = MQTT_USER_PROPERTY_ID
          \/ desOp = "MQTTPropGet_SubscriptionId" /\ id = MQTT_SUBSCRIPTION_ID_ID

(* The call was made on data shorter than a length encoded in it requires. *)
TruncatedInput ==
    \/ /\ PacketParsed("MQTT_DeserializeConnAck", {MQTT_PACKET_TYPE_CONNACK})
       /\ BlockExceeds(Supplied, 2)
    \/ /\ PacketParsed("MQTT_DeserializePublish", PublishTypes)
       /\ \/ Utf8Exceeds(Supplied, 0)
          \/ /\ Len(Supplied) >= 2
             /\ BlockExceeds(Supplied,
                             2 + Supplied[1] * 256 + Supplied[2]
                               + (IF (desIn.pIncomingPacket.type \div 2) % 4 = 0 THEN 0 ELSE 2))
    \/ /\ PacketParsed("MQTT_DeserializeAck",
                       {MQTT_PACKET_TYPE_SUBACK, MQTT_PACKET_TYPE_UNSUBACK})
       /\ BlockExceeds(Supplied, 2)
    \/ /\ PacketParsed("MQTT_DeserializeAck",
                       {MQTT_PACKET_TYPE_PUBACK, MQTT_PACKET_TYPE_PUBREC,
                        MQTT_PACKET_TYPE_PUBREL, MQTT_PACKET_TYPE_PUBCOMP})
       /\ BlockExceeds(Supplied, 3)
    \/ /\ PropertyRead
       /\ ValueExceeds(Supplied, desArgs.currentIndex.index)

(* No parser reads a byte at or beyond the supplied length.                *)
ReadsWithinSupplied ==
    (desOp \notin {"idle", "input"} /\ desOut.reads > 0) => desOut.reads <= Len(Supplied)

(* C6: every deserialization call (CONNACK, PUBLISH, SUBACK, the publish   *)
(* acknowledgements, the property reader) on data shorter than the lengths *)
(* encoded inside it require (a topic, string, property value or property  *)
(* block length that exceeds the bytes supplied) returns MQTTBadResponse   *)
(* and reads no byte at an index at or beyond the supplied length.         *)
C6_TruncatedIsBadResponse ==
    (desOp \notin {"idle", "input"} /\ TruncatedInput) =>
        /\ desOut.status = MQTTBadResponse
        /\ desOut.reads <= Len(Supplied)

(***************************************************************************)
(* Building a property block.  A run links one of the two sets of add      *)
(* functions and builds the block of one packet: every add is given the    *)
(* same packet type hint, or none.  The caller zeroes a builder,           *)
(* initialises it over a buffer and then calls add functions; propAdded    *)
(* is the list of the calls that returned MQTTSuccess, propLast the last   *)
(* call made.                                                              *)
(***************************************************************************)
MaxAdds == 2

BuilderBufferLengths == {8, 32}

(* No hint, every packet type the headers name, a PUBLISH with flag bits,  *)
(* PUBREL and SUBSCRIBE without their flag bits, and a byte that is no     *)
(* packet type.                                                            *)
PropHints ==
    { NoHint } \cup
    { Hint(type) : type \in
        { MQTT_PACKET_TYPE_CONNECT, MQTT_PACKET_TYPE_CONNACK, MQTT_PACKET_TYPE_PUBLISH,
          MQTT_PACKET_TYPE_PUBACK, MQTT_PACKET_TYPE_PUBREC, MQTT_PACKET_TYPE_PUBREL,
          MQTT_PACKET_TYPE_PUBCOMP, MQTT_PACKET_TYPE_SUBSCRIBE, MQTT_PACKET_TYPE_SUBACK,
          MQTT_PACKET_TYPE_UNSUBSCRIBE, MQTT_PACKET_TYPE_UNSUBACK,
          MQTT_PACKET_TYPE_PINGREQ, MQTT_PACKET_TYPE_PINGRESP,
          MQTT_PACKET_TYPE_DISCONNECT, MQTT_PACKET_TYPE_AUTH,
          59, 96, 128, 0 } }

(* Argument values.  A flag is false or true, and the caller of a Payload  *)
(* Format Indicator add also writes 2; a number is 0 where the             *)
(* function tests for it, and one other value; a string is a NULL pointer  *)
(* or the one-byte string "a", for a Reason String also "a" with a length  *)
(* of 0 and for a Response Topic also the topic filter "+".                *)
StrValues == { Str(NullPtr, 1), Str(Ptr(<<97>>), 1) }

AdderValues(wire, id, nonZero) ==
    CASE wire = "Uint8" -> IF id = MQTT_PAYLOAD_FORMAT_ID THEN {0, 1, 2} ELSE {0, 1}
      [] wire = "Uint16" -> IF nonZero THEN {0, 258} ELSE {258}
      [] wire = "Uint32" -> IF nonZero THEN {0, 16909060} ELSE {16909060}
      [] wire = "Utf8" -> CASE id = MQTT_RESPONSE_TOPIC_ID ->
                                    StrValues \cup { Str(Ptr(<<43>>), 1) }
                               [] id = MQTT_REASON_STRING_ID ->
                                    StrValues \cup { Str(Ptr(<<97>>), 0) }
                               [] OTHER -> StrValues

(* A Subscription Identifier of 0, of two encoded bytes, the largest one   *)
(* four bytes encode (268,435,455) and 0x7FFFFFFF, a uint32_t that takes   *)
(* five encoded bytes.                                                     *)
SubscribeIdValues == {0, 200, MQTT_MAX_REMAINING_LENGTH, 2147483647}

UserPropertyValues ==
    { NullUserProperty,
      UserProperty(Ptr(<<107>>), 0, Ptr(<<118>>), 1),
      UserProperty(Ptr(<<107>>), 1, Ptr(<<118>>), 1) }

PropInit ==
    /\ VbiIdle
    /\ SerIdle
    /\ DesIdle
    /\ propOp = "start"
    /\ propIn \in [ kind : {"builder"},
                    api : {"prop_serializer", "serializer"},
                    pPropertyBuilder : {"NULL", "builder"},
                    pOptionalMqttPacketType : PropHints ]
    /\ propBuilder = ZeroedBuilder
    /\ propAdded = <<>>
    /\ propLast = NoCall
    /\ propGet = NoGet

(* MQTTPropertyBuilder_Init( &builder, buffer, length ): a refused call    *)
(* leaves the builder as the caller had it.                                *)
PropertyBuilder_Init ==
    /\ propOp = "start"
    /\ \E length \in BuilderBufferLengths \cup {0}, isNull \in BOOLEAN :
          LET buffer == IF isNull THEN NullPtr ELSE Ptr(Untouched(length))
              r == MQTTPropertyBuilder_Init(buffer, length)
          IN /\ propBuilder' = IF r.status = MQTTSuccess THEN r.builder ELSE propBuilder
             /\ propLast' = [fn |-> "MQTTPropertyBuilder_Init", value |-> length,
                             builderArg |-> "builder", status |-> r.status]
    /\ propOp' = "ready"
    /\ UNCHANGED <<propIn, propAdded, propGet>>
    /\ UNCHANGED nonPropVars

(* What a call of an add function fn leaves behind, r being what it        *)
(* returned for the builder pointer and the value it was given.  The       *)
(* caller notes the currentIndex at which each property it added starts,   *)
(* and goes on adding until a call is refused; at most MaxAdds calls add   *)
(* a property.  propLast keeps the argument as the caller wrote it,        *)
(* propAdded the parameter the function received: an argument for a bool   *)
(* parameter arrives as 0 or 1.                                            *)
Parameter(fn, value) ==
    IF \/ fn \in DOMAIN PropAdders /\ PropAdders[fn].add = "Uint8"
       \/ fn \in DOMAIN SerializerPropAdders /\ SerializerPropAdders[fn].wire = "Uint8"
    THEN BoolArgument(value)
    ELSE value

Called(fn, pPropertyBuilder, value, r) ==
    /\ r.status = MQTTSuccess => Len(propAdded) < MaxAdds
    /\ propLast' = [fn |-> fn, value |-> value,
                    builderArg |-> IF pPropertyBuilder.null THEN "NULL" ELSE "builder",
                    status |-> r.status]
    /\ propBuilder' = IF pPropertyBuilder.null THEN propBuilder ELSE r.builder
    /\ propAdded' = IF r.status = MQTTSuccess
                    THEN Append(propAdded, [fn |-> fn, value |-> Parameter(fn, value),
                                            start |-> pPropertyBuilder.currentIndex])
                    ELSE propAdded
    /\ propOp' = IF r.status = MQTTSuccess THEN "ready" ELSE "refused"
    /\ UNCHANGED <<propIn, propGet>>
    /\ UNCHANGED nonPropVars

(* The caller passes the address of its builder to every add, or NULL     *)
(* to every add.                                                           *)
BuilderArgs == IF propIn.pPropertyBuilder = "NULL" THEN { NullBuilder } ELSE { propBuilder }

CanAdd(api) == propOp = "ready" /\ propIn.api = api

PropAdd ==
    /\ CanAdd("prop_serializer")
    /\ \E adder \in DOMAIN PropAdders, pPropertyBuilder \in BuilderArgs :
          \E value \in AdderValues(PropAdders[adder].add, PropAdders[adder].id,
                                    PropAdders[adder].nonZero) :
             Called(adder, pPropertyBuilder, value,
                    MQTTPropAdd(adder, pPropertyBuilder, value,
                                propIn.pOptionalMqttPacketType))

PropAdd_AuthData ==
    /\ CanAdd("prop_serializer")
    /\ propIn.pPropertyBuilder = "builder"
    /\ \E value \in StrValues :
          Called("MQTTPropAdd_AuthData", propBuilder, value,
                 MQTTPropAdd_AuthData(propBuilder, value.pointer, value.length,
                                      propIn.pOptionalMqttPacketType))

PropAdd_SubscribeId ==
    /\ CanAdd("prop_serializer")
    /\ \E subscriptionId \in SubscribeIdValues, pPropertyBuilder \in BuilderArgs :
          Called("MQTTPropAdd_SubscribeId", pPropertyBuilder, subscriptionId,
                 MQTTPropAdd_SubscribeId(pPropertyBuilder, subscriptionId,
                                         propIn.pOptionalMqttPacketType))

PropAdd_UserProp ==
    /\ CanAdd("prop_serializer")
    /\ \E userProperty \in UserPropertyValues, pPropertyBuilder \in BuilderArgs :
          Called("MQTTPropAdd_UserProp", pPropertyBuilder, userProperty,
                 MQTTPropAdd_UserProp(pPropertyBuilder, userProperty,
                                      propIn.pOptionalMqttPacketType))

Serializer_PropAdd ==
    /\ CanAdd("serializer")
    /\ \E adder \in DOMAIN SerializerPropAdders, pPropertyBuilder \in BuilderArgs :
          \E value \in AdderValues(SerializerPropAdders[adder].wire,
                                    SerializerPropAdders[adder].id,
                                    SerializerPropAdders[adder].nonZero) :
             Called(adder, pPropertyBuilder, value,
                    serializer_MQTTPropAdd(adder, pPropertyBuilder, value,
                                           propIn.pOptionalMqttPacketType))

Serializer_PropAdd_ConnAuthData ==
    /\ CanAdd("serializer")
    /\ \E value \in StrValues, pPropertyBuilder \in BuilderArgs :
          Called("MQTTPropAdd_ConnAuthData", pPropertyBuilder, value,
                 serializer_MQTTPropAdd_ConnAuthData(pPropertyBuilder, value.pointer,
                     value.length, propIn.pOptionalMqttPacketType))

Serializer_PropAdd_SubscribeId ==
    /\ CanAdd("serializer")
    /\ \E subscriptionId \in SubscribeIdValues, pPropertyBuilder \in BuilderArgs :
          Called("MQTTPropAdd_SubscribeId", pPropertyBuilder, subscriptionId,
                 serializer_MQTTPropAdd_SubscribeId(pPropertyBuilder, subscriptionId,
                                                    propIn.pOptionalMqttPacketType))

Serializer_PropAdd_UserProp ==
    /\ CanAdd("serializer")
    /\ \E userProperty \in UserPropertyValues, pPropertyBuilder \in BuilderArgs :
          Called("MQTTPropAdd_UserProp", pPropertyBuilder, userProperty,
                 serializer_MQTTPropAdd_UserProp(pPropertyBuilder, userProperty,
                                                 propIn.pOptionalMqttPacketType))

PropNext ==
    \/ PropertyBuilder_Init
    \/ PropAdd
    \/ PropAdd_AuthData
    \/ PropAdd_SubscribeId
    \/ PropAdd_UserProp
    \/ Serializer_PropAdd
    \/ Serializer_PropAdd_ConnAuthData
    \/ Serializer_PropAdd_SubscribeId
    \/ Serializer_PropAdd_UserProp

SpecProp == PropInit /\ [][PropNext]_vars

(***************************************************************************)
(* The property table of the design: the identifier each add function is   *)
(* for, and the control packet types (type code 1..15, the high nibble of  *)
(* the first byte) a property may appear in.  "Will" is no control packet  *)
(* type; "most ACK types" is read as every acknowledgement, PUBREL         *)
(* included.                                                               *)
(***************************************************************************)
TableId ==
    [ MQTTPropAdd_PayloadFormat |-> 1, MQTTPropAdd_PubPayloadFormat |-> 1,
      MQTTPropAdd_MessageExpiry |-> 2, MQTTPropAdd_PubMessageExpiry |-> 2,
      MQTTPropAdd_ContentType |-> 3, MQTTPropAdd_PubContentType |-> 3,
      MQTTPropAdd_ResponseTopic |-> 8, MQTTPropAdd_PubResponseTopic |-> 8,
      MQTTPropAdd_CorrelationData |-> 9, MQTTPropAdd_PubCorrelationData |-> 9,
      MQTTPropAdd_SubscribeId |-> 11,
      MQTTPropAdd_SessionExpiry |-> 17,
      MQTTPropAdd_AuthMethod |-> 21, MQTTPropAdd_ConnAuthMethod |-> 21,
      MQTTPropAdd_AuthData |-> 22, MQTTPropAdd_ConnAuthData |-> 22,
      MQTTPropAdd_RequestProbInfo |-> 23, MQTTPropAdd_ConnRequestProbInfo |-> 23,
      MQTTPropAdd_WillDelayInterval |-> 24,
      MQTTPropAdd_RequestRespInfo |-> 25, MQTTPropAdd_ConnRequestRespInfo |-> 25,
      MQTTPropAdd_ReasonString |-> 31,
      MQTTPropAdd_ReceiveMax |-> 33, MQTTPropAdd_ConnReceiveMax |-> 33,
      MQTTPropAdd_TopicAliasMax |-> 34, MQTTPropAdd_ConnTopicAliasMax |-> 34,
      MQTTPropAdd_TopicAlias |-> 35, MQTTPropAdd_PubTopicAlias |-> 35,
      MQTTPropAdd_UserProp |-> 38,
      MQTTPropAdd_MaxPacketSize |-> 39, MQTTPropAdd_ConnMaxPacketSize |-> 39 ]

UserPropertyId == TableId.MQTTPropAdd_UserProp
AuthenticationMethodId == TableId.MQTTPropAdd_AuthMethod
AuthenticationDataId == TableId.MQTTPropAdd_AuthData

AllowedIn(id) ==
    CASE id \in {1, 2, 3, 8, 9, 35} -> {3}
      [] id = 11 -> {3, 8}
      [] id = 17 -> {1, 2, 14}
      [] id \in {18, 19, 26, 36, 37, 40, 41, 42} -> {2}
      [] id \in {21, 22} -> {1, 2, 15}
      [] id \in {23, 25} -> {1}
      [] id = 24 -> {}
      [] id = 28 -> {2, 14}
      [] id = 31 -> {4, 5, 6, 7, 9, 11, 2, 14, 15}
      [] id \in {33, 34, 39} -> {1, 2}
      [] id = 38 -> 1..15

(* The last call was an add; the property it was for; the adds that had    *)
(* succeeded before it, and the properties they had added.                 *)
LastIsAdd == propLast.fn \notin {"none", "MQTTPropertyBuilder_Init"}
LastProperty == TableId[propLast.fn]
AddedBefore ==
    IF LastIsAdd /\ propLast.status = MQTTSuccess
    THEN SubSeq(propAdded, 1, Len(propAdded) - 1)
    ELSE propAdded
PropertiesBefore == { TableId[AddedBefore[i].fn] : i \in 1..Len(AddedBefore) }

(* The packet type of the run's hint admits the property.                  *)
HintAdmits(id) ==
    /\ ~propIn.pOptionalMqttPacketType.null
    /\ (propIn.pOptionalMqttPacketType.type \div 16) \in AllowedIn(id)

(* A User Property add with a key and a value, on an initialised builder   *)
(* that has room for its seven bytes.                                      *)
UserPropertyFits ==
    /\ LastIsAdd
    /\ LastProperty = UserPropertyId
    /\ propLast.builderArg = "builder"
    /\ propLast.value = UserProperty(Ptr(<<107>>), 1, Ptr(<<118>>), 1)
    /\ ~propBuilder.pBuffer.null
    /\ Len(AddedBefore) < MaxAdds
    /\ LET used == IF propLast.status = MQTTSuccess
                   THEN propBuilder.currentIndex - 7
                   ELSE propBuilder.currentIndex
       IN used + 7 <= propBuilder.bufferLength

(* C7: once a property other than User Property has been added with a      *)
(* hint whose packet type admits it, another add of that property returns  *)
(* MQTTBadParameter; a User Property add that fits succeeds when User      *)
(* Properties were added before it.                                        *)
C7_SecondAddIsBadParameter ==
    /\ ( /\ LastIsAdd
         /\ LastProperty # UserPropertyId
         /\ LastProperty \in PropertiesBefore
         /\ HintAdmits(LastProperty) )
       => propLast.status = MQTTBadParameter
    /\ (UserPropertyFits /\ UserPropertyId \in PropertiesBefore)
       => propLast.status = MQTTSuccess

(* The same, of the add functions of the property serializer alone.        *)
SecondAddIsBadParameterInPropSerializer ==
    propIn.api = "prop_serializer" => C7_SecondAddIsBadParameter

(* The run has a hint, and the table does not allow the property in the    *)
(* hint's packet type.                                                     *)
HintExcludes(id) ==
    /\ ~propIn.pOptionalMqttPacketType.null
    /\ (propIn.pOptionalMqttPacketType.type \div 16) \notin AllowedIn(id)

(* C8: an add of a property with a hint whose packet type the table does   *)
(* not allow the property in returns MQTTBadParameter, whichever of the    *)
(* two allow lists the add function asks.                                  *)
C8_DisallowedPairIsBadParameter ==
    (LastIsAdd /\ HintExcludes(LastProperty)) => propLast.status = MQTTBadParameter

(* The same, of the add functions of the property serializer alone.        *)
DisallowedPairIsBadParameterInPropSerializer ==
    propIn.api = "prop_serializer" => C8_DisallowedPairIsBadParameter

(* Neither allow list lets through a pair that the table excludes.         *)
AllowListsWithinTable ==
    ~propIn.pOptionalMqttPacketType.null =>
        /\ \A adder \in DOMAIN PropAdders :
              isValidPropertyInPacketType(propIn.pOptionalMqttPacketType,
                                          PropAdders[adder].pos)
                  => ~HintExcludes(TableId[adder])
        /\ \A adder \in DOMAIN SerializerPropAdders :
              serializer_isValidPropertyInPacketType(propIn.pOptionalMqttPacketType,
                                                     SerializerPropAdders[adder].pos)
                  => ~HintExcludes(TableId[adder])
        /\ \A position \in { MQTT_AUTHENTICATION_DATA_POS, MQTT_SUBSCRIPTION_ID_POS,
                             MQTT_USER_PROP_POS } :
              LET id == CASE position = MQTT_AUTHENTICATION_DATA_POS -> AuthenticationDataId
                          [] position = MQTT_SUBSCRIPTION_ID_POS -> TableId.MQTTPropAdd_SubscribeId
                          [] OTHER -> UserPropertyId
              IN ( \/ isValidPropertyInPacketType(propIn.pOptionalMqttPacketType, position)
                   \/ serializer_isValidPropertyInPacketType(
                          propIn.pOptionalMqttPacketType, position) )
                     => ~HintExcludes(id)

(* An Authentication Data add that succeeded came after an Authentication  *)
(* Method add that had succeeded on the same builder.                      *)
AuthDataSucceedsOnlyAfterMethod ==
    ( /\ LastIsAdd
      /\ LastProperty = AuthenticationDataId
      /\ propLast.status = MQTTSuccess )
    => AuthenticationMethodId \in PropertiesBefore

(* C9: an Authentication Data add succeeds only after an Authentication    *)
(* Method add has succeeded on the builder, and one made before any        *)
(* Authentication Method add returns MQTTBadParameter.                     *)
C9_AuthDataNeedsAuthMethod ==
    /\ AuthDataSucceedsOnlyAfterMethod
    /\ ( /\ LastIsAdd
         /\ LastProperty = AuthenticationDataId
         /\ AuthenticationMethodId \notin PropertiesBefore )
       => propLast.status = MQTTBadParameter

(* The same, of the add functions of the property serializer alone.        *)
AuthDataNeedsAuthMethodInPropSerializer ==
    propIn.api = "prop_serializer" => C9_AuthDataNeedsAuthMethod

(***************************************************************************)
(* The encoding the property table assigns to an add: the identifier byte, *)
(* then the value in the wire type of the identifier.  Multi-byte integers *)
(* are big-endian, strings and binary data carry a two-byte length, the    *)
(* Subscription Identifier is a Variable Byte Integer and a User Property  *)
(* is two strings.                                                         *)
(***************************************************************************)
RECURSIVE BigEndian(_, _)
BigEndian(value, width) ==
    IF width = 0 THEN <<>>
    ELSE BigEndian(value \div 256, width - 1) \o <<value % 256>>

RECURSIVE VariableByteInteger(_)
VariableByteInteger(value) ==
    IF value < 128 THEN <<value>>
    ELSE <<128 + (value % 128)>> \o VariableByteInteger(value \div 128)

LengthPrefixed(pointer, length) ==
    BigEndian(length, 2) \o SubSeq(pointer.data, 1, length)

TableWireType(id) ==
    CASE id \in {1, 23, 25, 36, 37, 40, 41, 42} -> "u8"
      [] id \in {19, 33, 34, 35} -> "u16"
      [] id \in {2, 17, 24, 39} -> "u32"
      [] id \in {3, 8, 9, 18, 21, 22, 26, 28, 31} -> "utf8"
      [] id = 11 -> "VBI"
      [] id = 38 -> "utf8,utf8"

TableEncoding(id, value) ==
    LET wire == TableWireType(id)
    IN <<id>> \o
       CASE wire = "u8" -> <<value>>
         [] wire = "u16" -> BigEndian(value, 2)
         [] wire = "u32" -> BigEndian(value, 4)
         [] wire = "utf8" -> LengthPrefixed(value.pointer, value.length)
         [] wire = "VBI" -> VariableByteInteger(value)
         [] wire = "utf8,utf8" ->
                LengthPrefixed(value.pKey, value.keyLength)
                    \o LengthPrefixed(value.pValue, value.valueLength)

(* The encodings of the adds that returned MQTTSuccess, in call order.     *)
EncodingsAdded ==
    [i \in 1..Len(propAdded) |->
        TableEncoding(TableId[propAdded[i].fn], propAdded[i].value)]

BuilderHolds(encodings) ==
    /\ propBuilder.currentIndex = Len(Concat(encodings))
    /\ propBuilder.currentIndex <= Len(propBuilder.pBuffer.data)
    /\ SubSeq(propBuilder.pBuffer.data, 1, propBuilder.currentIndex)
           = Concat(encodings)

(* C10: bytes [0, currentIndex) of the builder's buffer are the            *)
(* concatenation, in call order, of the encodings of the adds that         *)
(* returned MQTTSuccess, and currentIndex is the sum of their sizes; as    *)
(* this holds after every call, no add changes a byte an earlier one wrote.*)
C10_BufferIsConcatenationOfAdds == BuilderHolds(EncodingsAdded)

(* The same, of the add functions of the property serializer alone.        *)
BufferIsConcatenationOfAddsInPropSerializer ==
    propIn.api = "prop_serializer" => C10_BufferIsConcatenationOfAdds

(* The same of both sets of add functions, when the bytes of a Request     *)
(* Problem Information added by MQTTPropAdd_ConnRequestProbInfo are taken  *)
(* as that function stores them, under the identifier of Request Response  *)
(* Information.                                                            *)
BufferIsConcatenationOfBytesStored ==
    BuilderHolds([i \in 1..Len(propAdded) |->
        IF propAdded[i].fn = "MQTTPropAdd_ConnRequestProbInfo"
        THEN TableEncoding(TableId.MQTTPropAdd_ConnRequestRespInfo,
                           propAdded[i].value)
        ELSE EncodingsAdded[i]])

(* C11: an add that returns MQTTBadParameter or MQTTNoMemory leaves the    *)
(* builder's buffer bytes, currentIndex and fieldSet as they were before   *)
(* the call.                                                               *)
C11_RefusedAddLeavesBuilder ==
    [][ ( /\ propLast'.fn \notin {"none", "MQTTPropertyBuilder_Init"}
          /\ propLast'.status \in {MQTTBadParameter, MQTTNoMemory} )
        => /\ propBuilder'.pBuffer = propBuilder.pBuffer
           /\ propBuilder'.currentIndex = propBuilder.currentIndex
           /\ propBuilder'.fieldSet = propBuilder.fieldSet
           /\ propBuilder'.bufferLength = propBuilder.bufferLength ]_vars

(* An add refused for want of room on an initialised                       *)
(* builder that already holds a property.                                  *)
RefusedAddOnFilledBuilder ==
    /\ LastIsAdd
    /\ propLast.builderArg = "builder"
    /\ propLast.status = MQTTNoMemory
    /\ propBuilder.currentIndex > 0
    /\ propBuilder.fieldSet # {}
    /\ Len(propAdded) > 0

(* The bytes a successful add has appended: those from the old             *)
(* currentIndex up to the new one.                                         *)
AppendsTableEncoding ==
    ( /\ propLast'.fn \notin {"none", "MQTTPropertyBuilder_Init"}
      /\ propLast'.status = MQTTSuccess )
    => /\ propBuilder'.currentIndex > propBuilder.currentIndex
       /\ propBuilder'.currentIndex <= Len(propBuilder'.pBuffer.data)
       /\ SubSeq(propBuilder'.pBuffer.data, propBuilder.currentIndex + 1,
                 propBuilder'.currentIndex)
              = TableEncoding(TableId[propLast'.fn],
                              propAdded'[Len(propAdded')].value)

(* C12: every successful add appends the identifier the property table    *)
(* assigns to its property, then the value in the property's wire type.    *)
C12_AddAppendsTableIdentifier == [][AppendsTableEncoding]_vars

(* The same, of the add functions of the property serializer alone.        *)
AddAppendsTableIdentifierInPropSerializer ==
    [][propIn.api = "prop_serializer" => AppendsTableEncoding]_vars

(* The same of every add function but MQTTPropAdd_ConnRequestProbInfo.     *)
AddAppendsTableIdentifierButRequestProbInfo ==
    [][propLast'.fn # "MQTTPropAdd_ConnRequestProbInfo"
           \/ propIn.api = "prop_serializer"
       => AppendsTableEncoding]_vars

(***************************************************************************)
(* Reading back what was added.  The application that built a property     *)
(* block calls the reader's get operation of a property it has added, with *)
(* the cursor at the start of one of the pairs in the block.               *)
(***************************************************************************)
GetOperation(id) ==
    CASE id = TableId.MQTTPropAdd_SubscribeId -> "MQTTPropGet_SubscriptionId"
      [] id = TableId.MQTTPropAdd_UserProp -> "MQTTPropGet_UserProp"
      [] id \in DOMAIN GetterOf -> GetterOf[id]
      [] OTHER -> "none"

Get(getter, pPropertyBuilder, currentIndex, property) ==
    CASE getter = "MQTTPropGet_SubscriptionId" ->
            MQTTPropGet_SubscriptionId(pPropertyBuilder, currentIndex, property)
      [] getter = "MQTTPropGet_UserProp" ->
            MQTTPropGet_UserProp(pPropertyBuilder, currentIndex, property)
      [] OTHER -> MQTTPropGet(getter, pPropertyBuilder, currentIndex, property)

PropGetAdded ==
    /\ propOp = "ready"
    /\ propIn.pPropertyBuilder = "builder"
    /\ \E of \in 1..Len(propAdded), at \in 1..Len(propAdded) :
          LET getter == GetOperation(TableId[propAdded[of].fn])
          IN /\ getter # "none"
             /\ propGet' = [getter |-> getter, of |-> of, at |-> at,
                            result |-> Get(getter, propBuilder,
                                           Cursor(propAdded[at].start), Slot)]
    /\ propOp' = "read"
    /\ UNCHANGED <<propIn, propBuilder, propAdded, propLast>>
    /\ UNCHANGED nonPropVars

PropGetNext ==
    \/ PropNext
    \/ PropGetAdded

SpecPropGet == PropInit /\ [][PropGetNext]_vars

(* The bytes a getter of a string hands out.                               *)
StringRead(string) ==
    SubSeq(propBuilder.pBuffer.data, string.start + 1, string.start + string.length)

StringGiven(pointer, length) == SubSeq(pointer.data, 1, length)

(* The value a get operation stored is the value that was added.           *)
Yields(id, value, got) ==
    LET wire == TableWireType(id)
    IN CASE wire \in {"u8", "u16", "VBI"} -> got = value
         [] wire = "u32" -> got = <<value \div 65536, value % 65536>>
         [] wire = "utf8" ->
                /\ got.length = value.length
                /\ StringRead(got) = StringGiven(value.pointer, value.length)
         [] wire = "utf8,utf8" ->
                /\ got.key.length = value.keyLength
                /\ StringRead(got.key) = StringGiven(value.pKey, value.keyLength)
                /\ got.value.length = value.valueLength
                /\ StringRead(got.value) = StringGiven(value.pValue, value.valueLength)

GotAtOwnPair == propGet.getter # "none" /\ propGet.at = propGet.of

GotAtOtherProperty ==
    /\ propGet.getter # "none"
    /\ TableId[propAdded[propGet.at].fn] # TableId[propAdded[propGet.of].fn]

GetReturnsAdded ==
    LET added == propAdded[propGet.of]
        id == TableId[added.fn]
    IN /\ propGet.result.status = MQTTSuccess
       /\ Yields(id, added.value, propGet.result.value)
       /\ propGet.result.currentIndex
              = Cursor(added.start + Len(TableEncoding(id, added.value)))

GetFailsInPlace ==
    /\ propGet.result.status # MQTTSuccess
    /\ propGet.result.currentIndex = Cursor(propAdded[propGet.at].start)

(* C13: after add_X(v) has succeeded, get_X with the cursor at the start   *)
(* of that pair returns MQTTSuccess, yields v and moves the cursor to the  *)
(* first byte after the pair; with the cursor at a pair of a different     *)
(* property get_X fails and leaves the cursor where it was.                *)
C13_GetReturnsWhatWasAdded ==
    /\ GotAtOwnPair => GetReturnsAdded
    /\ GotAtOtherProperty => GetFailsInPlace

(* The same of every get operation but those of Maximum Packet Size and    *)
(* Message Expiry Interval.                                                *)
GetReturnsWhatWasAddedButTwo ==
    propGet.getter \notin {"MQTTPropGet_MaxPacketSize",
                           "MQTTPropGet_MessageExpiryInterval"}
    => C13_GetReturnsWhatWasAdded

(* An add of zero for a property whose value must not be zero.             *)
LastAddsZero ==
    /\ LastIsAdd
    /\ LastProperty \in { TableId.MQTTPropAdd_ReceiveMax, TableId.MQTTPropAdd_TopicAlias,
                          TableId.MQTTPropAdd_SubscribeId,
                          TableId.MQTTPropAdd_MaxPacketSize }
    /\ propLast.value = 0

(* An add of a Payload Format Indicator other than 0 and 1.                *)
LastAddsPayloadFormatOutOfRange ==
    /\ LastIsAdd
    /\ LastProperty = TableId.MQTTPropAdd_PayloadFormat
    /\ propLast.value \notin {0, 1}

(* An add of zero as Receive Maximum, Topic Alias, Subscription Identifier *)
(* or Maximum Packet Size returns MQTTBadParameter.                        *)
ZeroIsBadParameter == LastAddsZero => propLast.status = MQTTBadParameter

(* C14: an add of Receive Maximum 0, Topic Alias 0, Subscription           *)
(* Identifier 0, Maximum Packet Size 0 or of a Payload Format Indicator    *)
(* outside {0,1} returns MQTTBadParameter, whatever the builder's state    *)
(* and the packet type hint.                                               *)
C14_OutOfRangeIsBadParameter ==
    /\ ZeroIsBadParameter
    /\ LastAddsPayloadFormatOutOfRange => propLast.status = MQTTBadParameter

(* Zero is refused also after another property has been added, with and    *)
(* without a hint.                                                         *)
ZeroRefusedOnFilledBuilder ==
    /\ LastAddsZero
    /\ propLast.status = MQTTBadParameter
    /\ Len(propAdded) > 0

(***************************************************************************)
(* Reading the properties of a CONNACK.  After MQTT_DeserializeConnAck has *)
(* returned MQTTSuccess the application walks the property buffer it was   *)
(* given: from cursor 0 it asks for the type of the next property and      *)
(* calls the get operation of that type, until one of the two calls does   *)
(* not return MQTTSuccess.                                                 *)
(***************************************************************************)
RECURSIVE ReadAll(_, _, _)
ReadAll(pPropBuffer, currentIndex, yielded) ==
    LET next == MQTT_GetNextPropertyType(pPropBuffer, currentIndex, Slot)
    IN IF next.status # MQTTSuccess
       THEN [status |-> next.status, yielded |-> yielded]
       ELSE LET got == Get(GetOperation(next.value), pPropBuffer, currentIndex, Slot)
            IN IF GetOperation(next.value) = "none"
               THEN [status |-> "no get operation", yielded |-> yielded]
               ELSE IF got.status # MQTTSuccess
               THEN [status |-> got.status, yielded |-> yielded]
               ELSE ReadAll(pPropBuffer, got.currentIndex, Append(yielded, next.value))

ReadConnAckProperties ==
    /\ desOp = "MQTT_DeserializeConnAck"
    /\ desOut.status = MQTTSuccess
    /\ ~desOut.pPropBuffer.null
    /\ LET r == ReadAll(desOut.pPropBuffer, Cursor(0), <<>>)
       IN desOut' = [status |-> r.status, yielded |-> r.yielded,
                     pPropBuffer |-> desOut.pPropBuffer]
    /\ desOp' = "read"
    /\ UNCHANGED <<desIn, desArgs>>
    /\ UNCHANGED nonDesVars

DesReadNext ==
    \/ DesNext
    \/ ReadConnAckProperties

SpecDeserRead == DesInit /\ [][DesReadNext]_vars

(* The property block of the CONNACK that was parsed (blocks here are      *)
(* shorter than 128 bytes, so their length field is one byte), and the     *)
(* identifiers of its properties in wire order, by the wire types of the   *)
(* property table.                                                         *)
ConnackBlock ==
    LET data == desIn.pIncomingPacket.pRemainingData.data
    IN SubSeq(data, 4, 3 + data[3])

TableIds == { TableId[fn] : fn \in DOMAIN TableId } \cup {18, 19, 26, 28, 36, 37, 40, 41, 42}

RECURSIVE VbiLength(_)
VbiLength(bytes) == IF Head(bytes) < 128 THEN 1 ELSE 1 + VbiLength(Tail(bytes))

PairLength(block) ==
    LET wire == TableWireType(block[1])
        str(at) == 2 + block[at] * 256 + block[at + 1]
    IN CASE wire = "u8" -> 2
         [] wire = "u16" -> 3
         [] wire = "u32" -> 5
         [] wire = "utf8" -> 1 + str(2)
         [] wire = "VBI" -> 1 + VbiLength(Tail(block))
         [] wire = "utf8,utf8" -> 1 + str(2) + str(2 + str(2))

RECURSIVE BlockIdentifiers(_)
BlockIdentifiers(block) ==
    IF block = <<>> \/ block[1] \notin TableIds THEN <<>>
    ELSE <<block[1]>>
             \o BlockIdentifiers(SubSeq(block, PairLength(block) + 1, Len(block)))

(* C15: after MQTT_DeserializeConnAck has succeeded on a CONNACK with a    *)
(* non-empty property block and a property buffer, the reader walked from  *)
(* cursor 0 over that buffer yields every property of the block in wire    *)
(* order before it reports the end of the block.                           *)
C15_ReaderYieldsConnackProperties ==
    (desOp = "read" /\ ConnackBlock # <<>>)
    => /\ desOut.yielded = BlockIdentifiers(ConnackBlock)
       /\ desOut.status = MQTTNoDataAvailable

(* The property buffer does get the block: its pBuffer and bufferLength    *)
(* are those of the block of the packet.                                   *)
PropBufferHoldsConnackBlock ==
    desOp = "read"
    => /\ desOut.pPropBuffer.pBuffer = Ptr(ConnackBlock)
       /\ desOut.pPropBuffer.bufferLength = Len(ConnackBlock)

(* MQTT_DeserializeConnAck was called with every argument it requires on   *)
(* a CONNACK supplied whole, whose property block ends with the packet.    *)
WholeConnackParsed ==
    /\ PacketParsed("MQTT_DeserializeConnAck", {MQTT_PACKET_TYPE_CONNACK})
    /\ LET packet == desIn.pIncomingPacket
           data == packet.pRemainingData.data
       IN /\ packet.remainingLength = Len(data)
          /\ Len(data) >= 3
          /\ data[3] < 128
          /\ Len(data) = 3 + data[3]

(* The block is made of properties of the table up to its end.             *)
RECURSIVE AllKnown(_)
AllKnown(block) ==
    IF block = <<>> THEN TRUE
    ELSE IF block[1] \notin TableIds THEN FALSE
    ELSE AllKnown(SubSeq(block, PairLength(block) + 1, Len(block)))

BlockOfKnownProperties == AllKnown(ConnackBlock)

UserPropertyTableId == TableId.MQTTPropAdd_UserProp

HasDuplicate(ids) ==
    \E i, j \in 1..Len(ids) : i < j /\ ids[i] = ids[j] /\ ids[i] # UserPropertyTableId

(* C16: a CONNACK whose property block holds a property other than User    *)
(* Property twice returns MQTTBadResponse; one whose block repeats User    *)
(* Properties and has no other defect is accepted.                         *)
C16_DuplicatePropertyIsBadResponse ==
    /\ (WholeConnackParsed /\ HasDuplicate(BlockIdentifiers(ConnackBlock)))
       => desOut.status = MQTTBadResponse
    /\ ( /\ WholeConnackParsed
         /\ BlockOfKnownProperties
         /\ Len(BlockIdentifiers(ConnackBlock)) > 1
         /\ \A i \in 1..Len(BlockIdentifiers(ConnackBlock)) :
               BlockIdentifiers(ConnackBlock)[i] = UserPropertyTableId
         /\ desIn.pIncomingPacket.pRemainingData.data[1] \in {0, 1}
         /\ desIn.pIncomingPacket.pRemainingData.data[2] = 0 )
       => desOut.status = MQTTSuccess

(* A CONNACK with Session Expiry Interval twice was refused; one with two  *)
(* User Properties was accepted.                                           *)
DuplicateSessionExpiryRefused ==
    /\ WholeConnackParsed
    /\ BlockIdentifiers(ConnackBlock) = <<17, 17>>
    /\ desOut.status = MQTTBadResponse

TwoUserPropertiesAccepted ==
    /\ WholeConnackParsed
    /\ BlockIdentifiers(ConnackBlock) = <<38, 38>>
    /\ desOut.status = MQTTSuccess

(* The remaining length of the CONNACK is 2, plus the size of the property *)
(* length field, plus the property length (a one-byte field in the packets *)
(* here).                                                                  *)
ConnackLengthFits ==
    LET packet == desIn.pIncomingPacket
        data == packet.pRemainingData.data
    IN /\ packet.remainingLength >= 3
       /\ data[3] < 128
       /\ packet.remainingLength = 2 + 1 + data[3]

ConnackWithMissingBytesRefused ==
    /\ PacketParsed("MQTT_DeserializeConnAck", {MQTT_PACKET_TYPE_CONNACK})
    /\ desIn.pIncomingPacket.remainingLength >= 3
    /\ desIn.pIncomingPacket.remainingLength
           < 3 + desIn.pIncomingPacket.pRemainingData.data[3]
    /\ desOut.status = MQTTBadResponse

(* The pairs of a block, by the wire types of the property table.          *)
RECURSIVE BlockPairs(_)
BlockPairs(block) ==
    IF block = <<>> \/ block[1] \notin TableIds THEN <<>>
    ELSE <<SubSeq(block, 1, PairLength(block))>>
             \o BlockPairs(SubSeq(block, PairLength(block) + 1, Len(block)))

(* Receive Maximum 0, Maximum Packet Size 0, Maximum QoS above 1, Retain   *)
(* Available above 1.                                                      *)
ValueOutOfRange(pair) ==
    \/ pair = <<33, 0, 0>>
    \/ pair = <<39, 0, 0, 0, 0>>
    \/ pair[1] \in {36, 37} /\ pair[2] > 1

CarriesValueOutOfRange ==
    \E i \in 1..Len(BlockPairs(ConnackBlock)) : ValueOutOfRange(BlockPairs(ConnackBlock)[i])

(* C18: a CONNACK carrying Receive Maximum 0, Maximum Packet Size 0,       *)
(* Maximum QoS above 1 or Retain Available above 1 returns                 *)
(* MQTTBadResponse.                                                        *)
C18_ValueOutOfRangeIsBadResponse ==
    (WholeConnackParsed /\ CarriesValueOutOfRange) => desOut.status = MQTTBadResponse

(* A CONNACK with Receive Maximum 0 behind another property was refused.   *)
ReceiveMaximumZeroRefused ==
    /\ WholeConnackParsed
    /\ Len(BlockPairs(ConnackBlock)) = 2
    /\ BlockPairs(ConnackBlock)[2] = <<33, 0, 0>>
    /\ desOut.status = MQTTBadResponse

(* MQTT_GetNextPropertyType was called with every argument it requires     *)
(* and the cursor inside the block, on an identifier outside the table.    *)
NextTypeAtUnknownIdentifier ==
    /\ desOp = "MQTT_GetNextPropertyType"
    /\ ~desIn.pPropertyBuilder.null
    /\ ~desIn.pPropertyBuilder.pBuffer.null
    /\ ~desArgs.currentIndex.null
    /\ ~desArgs.property.null
    /\ desArgs.currentIndex.index < desIn.pPropertyBuilder.currentIndex
    /\ desIn.pPropertyBuilder.pBuffer.data[desArgs.currentIndex.index + 1] \notin TableIds

(* A CONNACK whose block holds an identifier outside the table returns     *)
(* MQTTBadResponse.                                                        *)
UnknownIdentifierInConnackIsBadResponse ==
    (WholeConnackParsed /\ ~AllKnown(ConnackBlock)) => desOut.status = MQTTBadResponse

(* MQTT_GetNextPropertyType does refuse an identifier outside the table,   *)
(* and leaves the cursor on it.                                            *)
NextTypeRefusesUnknownIdentifier ==
    NextTypeAtUnknownIdentifier
    => /\ desOut.status # MQTTSuccess
       /\ desOut.currentIndex = desArgs.currentIndex

(* C19: an identifier that is not in the property table makes the parse of *)
(* the block return MQTTBadResponse, in the CONNACK property parser and in *)
(* MQTT_GetNextPropertyType.                                               *)
C19_UnknownIdentifierIsBadResponse ==
    /\ UnknownIdentifierInConnackIsBadResponse
    /\ NextTypeAtUnknownIdentifier => desOut.status = MQTTBadResponse

(* The pair at the head of the block is there whole.                       *)
PairFits(block) ==
    LET wire == TableWireType(block[1])
    IN CASE wire \in {"u8", "u16", "u32"} -> PairLength(block) <= Len(block)
         [] wire = "utf8" -> Len(block) >= 3 /\ PairLength(block) <= Len(block)
         [] wire = "utf8,utf8" ->
                /\ Len(block) >= 3
                /\ Len(block) >= 4 + block[2] * 256 + block[3]
                /\ PairLength(block) <= Len(block)
         [] OTHER -> FALSE

(* The block is a run of whole pairs of the identifiers allowed.           *)
RECURSIVE WholePairsOf(_, _)
WholePairsOf(block, allowed) ==
    IF block = <<>> THEN TRUE
    ELSE /\ block[1] \in allowed
         /\ PairFits(block)
         /\ WholePairsOf(SubSeq(block, PairLength(block) + 1, Len(block)), allowed)

(* The properties of a CONNACK and of a SUBACK, by identifier.             *)
ConnackPropertyIds == {17, 18, 19, 21, 22, 26, 28, 31, 33, 34, 36, 37, 38, 39, 40, 41, 42}
SubackPropertyIds == {31, 38}

(* The reason codes of 0x80 and above of a CONNACK, and the reason codes   *)
(* of a SUBACK, of MQTT 5.0.                                               *)
ConnackRefusalCodes ==
    {128, 129, 130, 131, 132, 133, 134, 135, 136, 137, 138, 140, 144, 149, 151, 153, 154,
     155, 156, 157, 159}
SubackReasonCodes == {0, 1, 2, 128, 131, 135, 143, 145, 151, 158, 161, 162}

(* A CONNACK without Session Present, with a reason code of 0x80 or above, *)
(* and a property block without defect.                                    *)
RefusedConnackParsed ==
    /\ WholeConnackParsed
    /\ desIn.pIncomingPacket.pRemainingData.data[1] = 0
    /\ desIn.pIncomingPacket.pRemainingData.data[2] \in ConnackRefusalCodes
    /\ WholePairsOf(ConnackBlock, ConnackPropertyIds)
    /\ ~HasDuplicate(BlockIdentifiers(ConnackBlock))
    /\ ~CarriesValueOutOfRange
    /\ \A i \in 1..Len(BlockIdentifiers(ConnackBlock)) :
          BlockIdentifiers(ConnackBlock)[i] = 26
          => desArgs.pConnectProperties.requestResponseInfo

(* The property block and the reason codes of a SUBACK supplied whole.     *)
SubackBlock ==
    LET data == desIn.pIncomingPacket.pRemainingData.data
    IN SubSeq(data, 4, 3 + data[3])

SubackCodes ==
    LET data == desIn.pIncomingPacket.pRemainingData.data
    IN SubSeq(data, 4 + data[3], Len(data))

(* A SUBACK with a packet identifier, a property block without defect and  *)
(* reason codes of which one is 0x80 or above.                             *)
RefusedSubackParsed ==
    /\ PacketParsed("MQTT_DeserializeAck", {MQTT_PACKET_TYPE_SUBACK})
    /\ LET packet == desIn.pIncomingPacket
           data == packet.pRemainingData.data
       IN /\ packet.remainingLength = Len(data)
          /\ Len(data) >= 4
          /\ data[1] * 256 + data[2] # 0
          /\ data[3] < 128
          /\ Len(data) > 3 + data[3]
    /\ WholePairsOf(SubackBlock, SubackPropertyIds)
    /\ \A i \in 1..Len(SubackCodes) : SubackCodes[i] \in SubackReasonCodes
    /\ \E i \in 1..Len(SubackCodes) : SubackCodes[i] >= 128

(* A refused CONNACK returns MQTTServerRefused.                            *)
RefusedConnackIsServerRefused ==
    RefusedConnackParsed => desOut.status = MQTTServerRefused

(* A SUBACK with an empty property block and reason codes 0x00, 0x01, 0x02 *)
(* and 0x80, of which one is 0x80, returns MQTTServerRefused.              *)
SubackFailureCodeIsServerRefused ==
    ( /\ RefusedSubackParsed
      /\ SubackBlock = <<>>
      /\ \A i \in 1..Len(SubackCodes) : SubackCodes[i] \in {0, 1, 2, 128} )
    => desOut.status = MQTTServerRefused

(* C20: a CONNACK without other defect whose reason code is 0x80 or above  *)
(* returns MQTTServerRefused, and a SUBACK without other defect that holds *)
(* a reason code of 0x80 or above returns MQTTServerRefused.               *)
C20_RefusalIsServerRefused ==
    /\ RefusedConnackParsed => desOut.status = MQTTServerRefused
    /\ RefusedSubackParsed => desOut.status = MQTTServerRefused

(* Refusals reached: a CONNACK with reason code 0x87 and a property, and   *)
(* a SUBACK with an empty block and the codes 0x00, 0x80.                  *)
RefusedConnackWithPropertySeen ==
    /\ RefusedConnackParsed
    /\ ConnackBlock # <<>>
    /\ desIn.pIncomingPacket.pRemainingData.data[2] = 135
    /\ desOut.status = MQTTServerRefused

RefusedSubackSeen ==
    /\ RefusedSubackParsed
    /\ SubackBlock = <<>>
    /\ SubackCodes = <<0, 128>>
    /\ desOut.status = MQTTServerRefused

(***************************************************************************)
(* A serialized PUBLISH received back: the bytes MQTT_SerializePublish     *)
(* wrote are what the transport delivers, the header is taken with         *)
(* MQTT_GetIncomingPacketTypeAndLength, and the rest is handed to          *)
(* MQTT_DeserializePublish.                                                *)
(***************************************************************************)
ReceiveSerializedPublish ==
    /\ serOp = "MQTT_SerializePublish"
    /\ serOut.status = MQTTSuccess
    /\ desOp = "idle"
    /\ LET header == MQTT_GetIncomingPacketTypeAndLength(serOut.written, 0)
           headerLength == 1 + remainingLengthEncodedSize(header.remainingLength)
           packet == IF header.status = MQTTSuccess
                     THEN PacketInfo(header.type,
                                     SubSeq(serOut.written, headerLength + 1,
                                            Len(serOut.written)),
                                     header.remainingLength)
                     ELSE NullArg
       IN /\ desIn' = [kind |-> "packet", pIncomingPacket |-> packet]
          /\ desArgs' = [pPacketId |-> Slot, pPublishInfo |-> Slot]
          /\ desOut' = IF header.status = MQTTSuccess
                       THEN MQTT_DeserializePublish(packet, Slot, Slot)
                       ELSE [status |-> header.status, packetId |-> Unset,
                             pPublishInfo |-> NullArg, reads |-> 0]
    /\ desOp' = "MQTT_DeserializePublish"
    /\ serOp' = "received"
    /\ UNCHANGED <<serIn, serSize, serOut>>
    /\ UNCHANGED <<vbiVars, propVars>>

SerRoundNext ==
    \/ SerNext
    \/ ReceiveSerializedPublish

SpecSerRound == SerInit /\ [][SerRoundNext]_vars

(* The bytes of the received packet a deserialized string points at; none  *)
(* for a NULL pointer.                                                     *)
Pointed(string) ==
    IF "start" \notin DOMAIN string THEN <<>>
    ELSE SubSeq(desIn.pIncomingPacket.pRemainingData.data, string.start + 1,
                string.start + string.length)

(* C21: a well-formed PUBLISH that was serialized and received back is     *)
(* deserialized with MQTTSuccess and with the QoS, retain, dup, topic,     *)
(* packet identifier (QoS above 0) and payload it was serialized from.     *)
C21_PublishRoundTrip ==
    (serOp = "received" /\ serIn.pPublishInfo.qos \in 0..2)
    => /\ desOut.status = MQTTSuccess
       /\ desOut.pPublishInfo.qos = serIn.pPublishInfo.qos
       /\ desOut.pPublishInfo.retain = serIn.pPublishInfo.retain
       /\ desOut.pPublishInfo.dup = serIn.pPublishInfo.dup
       /\ Pointed(desOut.pPublishInfo.pTopicName)
              = BytesAt(serIn.pPublishInfo.pTopicName, serIn.pPublishInfo.topicNameLength)
       /\ serIn.pPublishInfo.qos > 0 => desOut.packetId = serIn.packetId
       /\ Pointed(desOut.pPublishInfo.pPayload)
              = BytesAt(serIn.pPublishInfo.pPayload, serIn.pPublishInfo.payloadLength)

(* A QoS 2 PUBLISH with retain and dup, packet identifier 258 and a        *)
(* payload of 200 bytes came back as it was.                               *)
PublishCameBack ==
    /\ serOp = "received"
    /\ WellFormedPublish(serIn)
    /\ serIn.pPublishInfo.qos = 2
    /\ serIn.pPublishInfo.retain
    /\ serIn.pPublishInfo.dup
    /\ serIn.packetId = 258
    /\ serIn.pPublishInfo.payloadLength = 200
    /\ desOut.status = MQTTSuccess
    /\ desOut.packetId = 258
    /\ Len(Pointed(desOut.pPublishInfo.pPayload)) = 200

(* Every PUBLISH that is serialized is well-formed.                        *)
SerializedPublishIsWellFormed ==
    serOp = "received" => WellFormedPublish(serIn)

(***************************************************************************)
(* PUBLISH serialization by a caller that computes the Remaining Length    *)
(* itself, as the library's own send path does, instead of taking it from  *)
(* a successful MQTT_GetPublishPacketSize.                                 *)
(***************************************************************************)
CallerRemainingLength(pPublishInfo) ==
    pPublishInfo.topicNameLength + 2 + (IF pPublishInfo.qos > 0 THEN 2 ELSE 0)
    + pPublishInfo.payloadLength

CallerSizedPublish ==
    /\ serOp = "input"
    /\ serIn.kind = "PUBLISH"
    /\ serIn.pPublishInfo.payloadLength <= MaxBufferSize

SerializePublishDirect ==
    /\ CallerSizedPublish
    /\ LET remainingLength == CallerRemainingLength(serIn.pPublishInfo)
       IN \E size \in BufferSizes(1 + remainingLengthEncodedSize(remainingLength)
                                  + remainingLength) :
              serOut' = MQTT_SerializePublish(serIn.pPublishInfo, serIn.packetId,
                                              remainingLength, size)
                        @@ [size |-> size]
    /\ serOp' = "MQTT_SerializePublish"
    /\ UNCHANGED <<serIn, serSize>>
    /\ UNCHANGED nonSerVars

SerializePublishHeaderDirect ==
    /\ CallerSizedPublish
    /\ LET remainingLength == CallerRemainingLength(serIn.pPublishInfo)
       IN \E size \in BufferSizes(1 + remainingLengthEncodedSize(remainingLength)
                                  + remainingLength - serIn.pPublishInfo.payloadLength) :
              serOut' = MQTT_SerializePublishHeader(serIn.pPublishInfo, serIn.packetId,
                                                    remainingLength, size)
                        @@ [size |-> size]
    /\ serOp' = "MQTT_SerializePublishHeader"
    /\ UNCHANGED <<serIn, serSize>>
    /\ UNCHANGED nonSerVars

(* pBuffer points at room for the header.                                  *)
SerializePublishHeaderWithoutTopic ==
    /\ CallerSizedPublish
    /\ serOut' = MQTT_SerializePublishHeaderWithoutTopic(
                     serIn.pPublishInfo, CallerRemainingLength(serIn.pPublishInfo))
                 @@ [size |-> MaxBufferSize]
    /\ serOp' = "MQTT_SerializePublishHeaderWithoutTopic"
    /\ UNCHANGED <<serIn, serSize>>
    /\ UNCHANGED nonSerVars

SerDirectNext ==
    \/ SerNext
    \/ SerializePublishDirect
    \/ SerializePublishHeaderDirect
    \/ SerializePublishHeaderWithoutTopic

SpecSerDirect == SerInit /\ [][SerDirectNext]_vars

PublishSerializers ==
    { "MQTT_SerializePublish", "MQTT_SerializePublishHeader",
      "MQTT_SerializePublishHeaderWithoutTopic" }

(* The four defects of a PUBLISH to send.                                  *)
QosIsThree == serIn.pPublishInfo.qos = 3
DupWithQosZero == serIn.pPublishInfo.dup /\ serIn.pPublishInfo.qos = 0
PacketIdMissing == serIn.pPublishInfo.qos > 0 /\ serIn.packetId = 0
TopicEmpty == serIn.pPublishInfo.topicNameLength = 0

PublishRejected == serOut.status = MQTTBadParameter /\ serOut.written = <<>>

(* MQTT_SerializePublish and MQTT_SerializePublishHeader reject DUP with   *)
(* QoS 0, a packet identifier of 0 with a QoS above 0, and an empty topic, *)
(* and write nothing.                                                      *)
PublishDefectsRejected ==
    ( /\ serOp \in {"MQTT_SerializePublish", "MQTT_SerializePublishHeader"}
      /\ DupWithQosZero \/ PacketIdMissing \/ TopicEmpty )
    => PublishRejected

(* C22: a PUBLISH with QoS 3, with DUP and QoS 0, with a QoS above 0 and   *)
(* packet identifier 0, or with an empty topic is refused by the PUBLISH   *)
(* serializers with MQTTBadParameter, and nothing is written.  The header  *)
(* without topic takes no packet identifier.                               *)
C22_InvalidPublishRejected ==
    /\ ( /\ serOp \in {"MQTT_SerializePublish", "MQTT_SerializePublishHeader"}
         /\ QosIsThree \/ DupWithQosZero \/ PacketIdMissing \/ TopicEmpty )
       => PublishRejected
    /\ ( /\ serOp = "MQTT_SerializePublishHeaderWithoutTopic"
         /\ QosIsThree \/ DupWithQosZero \/ TopicEmpty )
       => PublishRejected

(* An empty topic was refused by MQTT_SerializePublish.                    *)
EmptyTopicRefused ==
    /\ serOp = "MQTT_SerializePublish"
    /\ TopicEmpty
    /\ ~DupWithQosZero
    /\ ~PacketIdMissing
    /\ serIn.pPublishInfo.payloadLength = 0
    /\ PublishRejected

(* The QoS 0 PUBLISH of topic "t" and payload "hi" without retain and DUP. *)
PublishOfHiToT ==
    /\ serIn.kind = "PUBLISH"
    /\ serIn.pPublishInfo.qos = 0
    /\ ~serIn.pPublishInfo.retain
    /\ ~serIn.pPublishInfo.dup
    /\ serIn.pPublishInfo.pTopicName = Ptr(<<116>>)
    /\ serIn.pPublishInfo.topicNameLength = 1
    /\ serIn.pPublishInfo.pPayload = Ptr(<<104, 105>>)
    /\ serIn.pPublishInfo.payloadLength = 2

(* What the serializer writes for it: seven bytes, the payload right       *)
(* behind the topic, and sizes that say so.                                *)
PublishOfHiToTAsWritten ==
    (serOp = "MQTT_SerializePublish" /\ PublishOfHiToT /\ serOut.status = MQTTSuccess)
    => /\ serOut.written = <<48, 5, 0, 1, 116, 104, 105>>
       /\ serSize.remainingLength = 5
       /\ serSize.packetSize = 7

(* C23: the QoS 0 PUBLISH of topic "t" and payload "hi" without retain,    *)
(* DUP and properties is serialized as the eight bytes                     *)
(* 30 06 00 01 74 00 68 69.                                                *)
C23_PublishExampleBytes ==
    (serOp = "MQTT_SerializePublish" /\ PublishOfHiToT /\ serOut.status = MQTTSuccess)
    => serOut.written = <<48, 6, 0, 1, 116, 0, 104, 105>>

PublishOfHiToTSerialized ==
    serOp = "MQTT_SerializePublish" /\ PublishOfHiToT /\ serOut.status = MQTTSuccess

PublishAckTypes ==
    { MQTT_PACKET_TYPE_PUBACK, MQTT_PACKET_TYPE_PUBREC, MQTT_PACKET_TYPE_PUBREL,
      MQTT_PACKET_TYPE_PUBCOMP }

(* MQTT_DeserializeAck was called with every argument it requires on a     *)
(* PUBACK, PUBREC, PUBREL or PUBCOMP supplied whole.                       *)
PublishAckParsed ==
    /\ PacketParsed("MQTT_DeserializeAck", PublishAckTypes)
    /\ desIn.pIncomingPacket.remainingLength = Len(desIn.pIncomingPacket.pRemainingData.data)
    /\ desIn.pIncomingPacket.remainingLength >= 2

AckPacketId ==
    LET data == desIn.pIncomingPacket.pRemainingData.data
    IN data[1] * 256 + data[2]

(* The short form: the packet identifier alone.                            *)
ShortAck == desIn.pIncomingPacket.remainingLength = 2

(* The long form: packet identifier, a reason code below 0x80 (Success or  *)
(* No matching subscribers), and a property block of whole Reason String   *)
(* and User Property pairs that ends with the packet.                      *)
LongAck ==
    LET data == desIn.pIncomingPacket.pRemainingData.data
    IN /\ Len(data) >= 4
       /\ data[3] \in {0, 16}
       /\ data[4] < 128
       /\ Len(data) = 4 + data[4]
       /\ WholePairsOf(SubSeq(data, 5, Len(data)), SubackPropertyIds)

(* The short form with a packet identifier is accepted and yields the      *)
(* identifier; an identifier of 0 returns MQTTBadResponse in both forms.   *)
ShortAckAccepted ==
    /\ (PublishAckParsed /\ ShortAck /\ AckPacketId # 0)
       => desOut.status = MQTTSuccess /\ desOut.packetId = AckPacketId
    /\ (PublishAckParsed /\ (ShortAck \/ LongAck) /\ AckPacketId = 0)
       => desOut.status = MQTTBadResponse

(* Every publish acknowledgement longer than two bytes is refused.         *)
LongAckRefused ==
    (PublishAckParsed /\ ~ShortAck) => desOut.status = MQTTBadResponse

(* C24: a PUBACK, PUBREC, PUBREL or PUBCOMP is accepted in the short form  *)
(* and in the long form, and yields its packet identifier; a packet        *)
(* identifier of 0 returns MQTTBadResponse in either form.                 *)
C24_AckFormsAccepted ==
    /\ (PublishAckParsed /\ (ShortAck \/ LongAck) /\ AckPacketId # 0)
       => desOut.status = MQTTSuccess /\ desOut.packetId = AckPacketId
    /\ (PublishAckParsed /\ (ShortAck \/ LongAck) /\ AckPacketId = 0)
       => desOut.status = MQTTBadResponse

(* Acknowledgements reached: a short PUBACK of packet identifier 258, and  *)
(* a long one with a Reason String.                                        *)
ShortAckSeen ==
    /\ PublishAckParsed
    /\ desIn.pIncomingPacket.type = MQTT_PACKET_TYPE_PUBACK
    /\ ShortAck
    /\ desOut.status = MQTTSuccess
    /\ desOut.packetId = 258

LongAckWithReasonStringSeen ==
    /\ PublishAckParsed
    /\ LongAck
    /\ AckPacketId = 1
    /\ desIn.pIncomingPacket.remainingLength = 8

(* The first bytes of the packets a client can receive: CONNACK, PUBLISH,  *)
(* PUBACK, PUBREC, PUBCOMP, SUBACK, UNSUBACK, PINGRESP, DISCONNECT and     *)
(* AUTH by their type, PUBREL with bit 0x02 set.                           *)
IncomingTypeNibbles == {2, 3, 4, 5, 7, 9, 11, 13, 14, 15}
PubrelTypeNibble == MQTT_PACKET_TYPE_PUBREL \div 16

ValidIncomingFirstByte(byte) ==
    \/ byte \div 16 \in IncomingTypeNibbles
    \/ byte \div 16 = PubrelTypeNibble /\ (byte \div 2) % 2 = 1

(* A header scanner ran and had the first byte: pull mode always, buffered *)
(* mode with an index of 1 or more.                                        *)
ScannerHadFirstByte ==
    \/ vbiOp = "MQTT_GetIncomingPacketTypeAndLength"
    \/ vbiOp = "MQTT_ProcessIncomingPacketTypeAndLength" /\ vbiRes.index >= 1

(* The Remaining Length behind the first byte is well-formed and the       *)
(* scanner had all of it.                                                  *)
ScannerHadRemainingLength ==
    /\ ~OverLong(vbiBuf)
    /\ \E k \in 1..4 :
          /\ EndsAt(vbiBuf, k)
          /\ vbiOp = "MQTT_ProcessIncomingPacketTypeAndLength" => vbiRes.index >= 1 + k

(* The scanners accept what the claim lists other than DISCONNECT and      *)
(* AUTH, and refuse every other first byte.                                *)
ScannersAcceptAllButDisconnectAndAuth ==
    ScannerHadFirstByte
    => /\ (ValidIncomingFirstByte(vbiRes.type) /\ vbiRes.type \div 16 \notin {14, 15}
           /\ ScannerHadRemainingLength)
          => vbiRes.status = MQTTSuccess
       /\ (~ValidIncomingFirstByte(vbiRes.type) \/ vbiRes.type \div 16 \in {14, 15})
          => vbiRes.status = MQTTBadResponse

(* C25: both header scanners accept a first byte exactly when it is that   *)
(* of a CONNACK, PUBLISH, PUBACK, PUBREC, PUBCOMP, SUBACK, UNSUBACK,       *)
(* PINGRESP, DISCONNECT or AUTH, or of a PUBREL with bit 0x02 set; every   *)
(* other first byte returns MQTTBadResponse.                               *)
C25_ScannersAcceptIncomingTypes ==
    ScannerHadFirstByte
    => /\ (ValidIncomingFirstByte(vbiRes.type) /\ ScannerHadRemainingLength)
          => vbiRes.status = MQTTSuccess
       /\ ~ValidIncomingFirstByte(vbiRes.type) => vbiRes.status = MQTTBadResponse

(* A PUBREL without its flag bit was refused in buffered mode.             *)
PubrelWithoutFlagRefused ==
    /\ vbiOp = "MQTT_ProcessIncomingPacketTypeAndLength"
    /\ vbiRes.type = 96
    /\ vbiRes.index >= 2
    /\ ScannerHadRemainingLength
    /\ vbiRes.status = MQTTBadResponse

(***************************************************************************)
(* Buffered mode over a buffer that fills up: the type byte and vbiBuf     *)
(* arrive byte by byte, and the application calls                          *)
(* MQTT_ProcessIncomingPacketTypeAndLength again and again with the index  *)
(* of the next free byte, which never goes back.  vbiRes keeps the type    *)
(* byte in the buffer, the index of the call, what the call returned, and  *)
(* what the call before it returned.                                       *)
(***************************************************************************)
NoScan == [status |-> "none"]

ScanBuffered ==
    /\ vbiOp \in {"receive", "encodeRemainingLength", "scan"}
    /\ \E type \in PacketTypeSamples, index \in 0..(Len(vbiBuf) + 1) :
          /\ vbiOp = "scan" => type = vbiRes.type /\ index >= vbiRes.index
          /\ LET out == MQTT_ProcessIncomingPacketTypeAndLength(<<type>> \o vbiBuf, index)
             IN vbiRes' = [status |-> out.status, type |-> type, index |-> index,
                           out |-> out,
                           before |-> IF vbiOp = "scan" THEN vbiRes.out ELSE NoScan]
    /\ vbiOp' = "scan"
    /\ UNCHANGED <<vbiN, vbiBuf, vbiEncoded>>
    /\ UNCHANGED nonVbiVars

ScanNext ==
    \/ VbiNext
    \/ ScanBuffered

SpecScan == VbiInit /\ [][ScanNext]_vars

(* The Remaining Length at the head of vbiBuf is well-formed.              *)
RemainingLengthWellFormed == ~OverLong(vbiBuf) /\ \E k \in 1..4 : EndsAt(vbiBuf, k)

(* The number of bytes of the header in the buffer: the type byte and the  *)
(* Remaining Length.                                                       *)
HeaderBytes == 1 + CHOOSE k \in 1..4 : EndsAt(vbiBuf, k)

(* What the scanner returns once the header is in the buffer.              *)
HeaderScanned(out) ==
    /\ out.status = MQTTSuccess
    /\ out.type = vbiRes.type
    /\ out.remainingLength = GroupsValue(vbiBuf, HeaderBytes - 1)
    /\ out.headerLength = HeaderBytes

(* With a first byte the scanner accepts and at least one byte stored, the *)
(* scanner returns MQTTNeedMoreBytes until the header is in the buffer and *)
(* the header's values from then on; with nothing stored it returns        *)
(* MQTTNoDataAvailable.                                                    *)
ScanSettlesOnceBytesStored ==
    (vbiOp = "scan" /\ incomingPacketValid(vbiRes.type) /\ RemainingLengthWellFormed)
    => /\ vbiRes.index = 0 => vbiRes.status = MQTTNoDataAvailable
       /\ (vbiRes.index >= 1 /\ vbiRes.index < HeaderBytes)
              => vbiRes.status = MQTTNeedMoreBytes
       /\ vbiRes.index >= HeaderBytes => HeaderScanned(vbiRes.out)
       /\ vbiRes.before.status = MQTTSuccess => vbiRes.out = vbiRes.before

(* C26: over a buffer that starts with a valid header and an index that    *)
(* only grows from 0, the buffered scanner returns MQTTNeedMoreBytes on    *)
(* every call until the type byte and the whole Remaining Length are below *)
(* the index, and on that call and every later one MQTTSuccess with the    *)
(* same type, remaining length and header length.                          *)
C26_ScanNeedsMoreBytesThenSettles ==
    (vbiOp = "scan" /\ ValidIncomingFirstByte(vbiRes.type) /\ RemainingLengthWellFormed)
    => /\ vbiRes.index < HeaderBytes => vbiRes.status = MQTTNeedMoreBytes
       /\ vbiRes.index >= HeaderBytes => HeaderScanned(vbiRes.out)
       /\ vbiRes.before.status = MQTTSuccess => vbiRes.out = vbiRes.before

(* A CONNACK header with a Remaining Length of two bytes was scanned with  *)
(* one byte missing and then again with all three bytes stored.            *)
ScannedAgainWithHeaderStored ==
    /\ vbiOp = "scan"
    /\ vbiRes.type = MQTT_PACKET_TYPE_CONNACK
    /\ RemainingLengthWellFormed
    /\ HeaderBytes = 3
    /\ vbiRes.before.status = MQTTNeedMoreBytes
    /\ vbiRes.status = MQTTSuccess

ScannedTwiceWithHeaderStored ==
    /\ vbiOp = "scan"
    /\ RemainingLengthWellFormed
    /\ vbiRes.index > HeaderBytes
    /\ vbiRes.before.status = MQTTSuccess
    /\ vbiRes.status = MQTTSuccess

(***************************************************************************)
(* Pull mode over a transport that runs dry: it delivers the first         *)
(* `delivered' bytes of the type byte and vbiBuf, and from then on every   *)
(* receive call returns `tail' (0: no data, -1: transport failure).        *)
(***************************************************************************)
PullFromTransport ==
    /\ vbiOp \in {"receive", "encodeRemainingLength"}
    /\ \E type \in PacketTypeSamples, delivered \in 0..(Len(vbiBuf) + 1), tail \in {0, -1} :
          LET stream == SubSeq(<<type>> \o vbiBuf, 1, delivered)
              out == MQTT_GetIncomingPacketTypeAndLength(stream, tail)
          IN vbiRes' = [status |-> out.status, type |-> type, out |-> out,
                        delivered |-> delivered, tail |-> tail]
    /\ vbiOp' = "pull"
    /\ UNCHANGED <<vbiN, vbiBuf, vbiEncoded>>
    /\ UNCHANGED nonVbiVars

PullNext ==
    \/ VbiNext
    \/ PullFromTransport

SpecPull == VbiInit /\ [][PullNext]_vars

(* The receive call for the type byte found the transport dry.             *)
TypeByteMissing == vbiOp = "pull" /\ vbiRes.delivered = 0

(* A receive call for a byte of the Remaining Length found the transport   *)
(* dry: the type byte was accepted, and the bytes delivered behind it are  *)
(* fewer than four and all have the continuation bit.                      *)
LengthByteMissing ==
    /\ vbiOp = "pull"
    /\ vbiRes.delivered >= 1
    /\ incomingPacketValid(vbiRes.type)
    /\ vbiRes.delivered - 1 < 4
    /\ \A i \in 1..(vbiRes.delivered - 1) : vbiBuf[i] >= 128

(* What the scanner returns when the transport runs dry: without data at   *)
(* the type byte MQTTNoDataAvailable, with a failure at the type byte      *)
(* MQTTRecvFailed, and at a byte of the Remaining Length MQTTBadResponse   *)
(* whatever the transport returned.                                        *)
PullOnDryTransport ==
    /\ (TypeByteMissing /\ vbiRes.tail = 0) => vbiRes.status = MQTTNoDataAvailable
    /\ (TypeByteMissing /\ vbiRes.tail < 0) => vbiRes.status = MQTTRecvFailed
    /\ LengthByteMissing => vbiRes.status = MQTTBadResponse

(* C27: in pull mode a first receive call that returns 0 gives             *)
(* MQTTNoDataAvailable, and a receive call for the type byte or for a byte *)
(* of the Remaining Length that returns a negative value gives             *)
(* MQTTRecvFailed.                                                         *)
C27_PullReportsTransport ==
    /\ (TypeByteMissing /\ vbiRes.tail = 0) => vbiRes.status = MQTTNoDataAvailable
    /\ ((TypeByteMissing \/ LengthByteMissing) /\ vbiRes.tail < 0)
       => vbiRes.status = MQTTRecvFailed

(* The transport failed at the second byte of a Remaining Length.          *)
TransportFailedInsideLength ==
    /\ LengthByteMissing
    /\ vbiRes.delivered = 2
    /\ vbiRes.tail < 0

(* The bytes entries i + 1 .. of the list take in a SUBSCRIBE: the topic   *)
(* filter behind its length, and the options byte.                         *)
RECURSIVE EntriesBehind(_, _)
EntriesBehind(list, i) ==
    IF i >= Len(list) THEN 0
    ELSE 2 + list[i + 1].topicFilterLength + 1 + EntriesBehind(list, i + 1)

(* The options byte of entry i in the SUBSCRIBE written.                   *)
OptionsByte(i) ==
    serOut.written[Len(serOut.written) - EntriesBehind(serIn.pSubscriptionList, i)]

(* QoS in bits 0-1, No Local in bit 2, Retain As Published in bit 3,       *)
(* Retain Handling in bits 4-5, bits 6-7 zero.                             *)
SubscriptionOptions(entry) ==
    entry.qos
    + (IF entry.noLocalOption THEN 4 ELSE 0)
    + (IF entry.retainAsPublishedOption THEN 8 ELSE 0)
    + 16 * entry.retainHandlingOption

SubscribeWritten == serOp = "MQTT_SerializeSubscribe" /\ serOut.status = MQTTSuccess

(* The options byte written is the QoS alone: bits 0-1 carry the QoS and   *)
(* bits 2-7 are zero.                                                      *)
OptionsByteIsQos ==
    SubscribeWritten
    => \A i \in 1..Len(serIn.pSubscriptionList) :
          OptionsByte(i) = serIn.pSubscriptionList[i].qos

(* C28: the options byte MQTT_SerializeSubscribe writes for an entry has   *)
(* the QoS in bits 0-1, No Local in bit 2, Retain As Published in bit 3,   *)
(* Retain Handling in bits 4-5 and zero in bits 6-7.                       *)
C28_SubscribeOptionsByte ==
    SubscribeWritten
    => \A i \in 1..Len(serIn.pSubscriptionList) :
          OptionsByte(i) = SubscriptionOptions(serIn.pSubscriptionList[i])

(* A SUBSCRIBE of two entries was written, the first with No Local.        *)
SubscribeWithNoLocalWritten ==
    /\ SubscribeWritten
    /\ Len(serIn.pSubscriptionList) = 2
    /\ serIn.pSubscriptionList[1].noLocalOption
    /\ serIn.pSubscriptionList[2].retainHandlingOption = 2

(***************************************************************************)
(* The first add of a property under a hint the table admits.              *)
(*                                                                         *)
(* A hint names a control packet type when it is the type byte the headers *)
(* define for it, or a PUBLISH byte with any flag bits.  A legal value is  *)
(* a flag of 0 or 1, a non-zero number, the one-byte string "a", or a User *)
(* Property with a one-byte key and a one-byte value.  Authentication Data *)
(* is looked at only behind an Authentication Method, as the builder       *)
(* contract pairs them.                                                    *)
(***************************************************************************)
ControlPacketTypeBytes ==
    { MQTT_PACKET_TYPE_CONNECT, MQTT_PACKET_TYPE_CONNACK,
      MQTT_PACKET_TYPE_PUBACK, MQTT_PACKET_TYPE_PUBREC, MQTT_PACKET_TYPE_PUBREL,
      MQTT_PACKET_TYPE_PUBCOMP, MQTT_PACKET_TYPE_SUBSCRIBE, MQTT_PACKET_TYPE_SUBACK,
      MQTT_PACKET_TYPE_UNSUBSCRIBE, MQTT_PACKET_TYPE_UNSUBACK,
      MQTT_PACKET_TYPE_DISCONNECT, MQTT_PACKET_TYPE_AUTH }

HintIsControlPacketType ==
    /\ ~propIn.pOptionalMqttPacketType.null
    /\ \/ propIn.pOptionalMqttPacketType.type \in ControlPacketTypeBytes
       \/ propIn.pOptionalMqttPacketType.type \div 16 = MQTT_PACKET_TYPE_PUBLISH \div 16

LegalValues(id) ==
    CASE id \in {1, 23, 25, 36, 37, 40, 41, 42} -> {0, 1}
      [] id \in {2, 17, 24, 39} -> {16909060}
      [] id \in {19, 33, 34, 35} -> {258}
      [] id = 11 -> {200}
      [] id \in {3, 8, 9, 18, 21, 22, 26, 28, 31} -> { Str(Ptr(<<97>>), 1) }
      [] id = 38 -> { UserProperty(Ptr(<<107>>), 1, Ptr(<<118>>), 1) }

(* The bytes one legal value of the property takes in the buffer.          *)
EncodedLength(id) ==
    CASE id \in {1, 23, 25, 36, 37, 40, 41, 42} -> 2
      [] id \in {2, 17, 24, 39} -> 5
      [] id \in {19, 33, 34, 35} -> 3
      [] id = 11 -> 3
      [] id \in {3, 8, 9, 18, 21, 22, 26, 28, 31} -> 4
      [] id = 38 -> 7

(* currentIndex as the last add found it.                                  *)
IndexBefore ==
    IF propLast.status = MQTTSuccess
    THEN propAdded[Len(propAdded)].start
    ELSE propBuilder.currentIndex

(* The last call was the first add of its property, with a legal value,    *)
(* on an initialised builder with room for it.                             *)
FirstLegalAddThatFits ==
    /\ LastIsAdd
    /\ propLast.builderArg = "builder"
    /\ ~propBuilder.pBuffer.null
    /\ LastProperty \notin PropertiesBefore
    /\ propLast.value \in LegalValues(LastProperty)
    /\ LastProperty = AuthenticationDataId => AuthenticationMethodId \in PropertiesBefore
    /\ IndexBefore + EncodedLength(LastProperty) <= propBuilder.bufferLength

AllowedAddSucceeds ==
    (FirstLegalAddThatFits /\ HintIsControlPacketType /\ HintAdmits(LastProperty))
        => propLast.status = MQTTSuccess

(* A Will Delay Interval add under a hint.  No hint stands for will        *)
(* properties, which travel in the payload of CONNECT.                     *)
WillDelayIntervalId == TableId.MQTTPropAdd_WillDelayInterval

WillDelayAddedUnderHint ==
    /\ FirstLegalAddThatFits
    /\ LastProperty = WillDelayIntervalId
    /\ ~propIn.pOptionalMqttPacketType.null

(* C29: the first add of a legal value of a property, with a hint whose    *)
(* control packet type the table allows the property in (a PUBLISH hint    *)
(* with any flag bits, AUTH and the acknowledgements included), on a       *)
(* builder with room for it returns MQTTSuccess under both allow lists;    *)
(* and a Will Delay Interval can be added under a hint: under the CONNECT  *)
(* hint, whose packet carries the will properties.                         *)
C29_AllowedAddSucceeds ==
    /\ AllowedAddSucceeds
    /\ ( /\ WillDelayAddedUnderHint
         /\ propIn.pOptionalMqttPacketType.type = MQTT_PACKET_TYPE_CONNECT )
       => propLast.status = MQTTSuccess

(* The part that holds.  With the allow list of the property serializer,   *)
(* which reads the hint byte as it is, the allowed first add succeeds      *)
(* under every type byte of the headers.  With the allow list of the       *)
(* packet serializer, which clears the low nibble of the hint byte, it     *)
(* succeeds under every hint whose label has a low nibble of 0, AUTH       *)
(* aside, and under a PUBLISH byte with flag bits.                         *)
AllowedAddSucceedsUnderPlainTypeByteInPropSerializer ==
    ( /\ propIn.api = "prop_serializer"
      /\ propIn.pOptionalMqttPacketType \in
            { Hint(type) : type \in ControlPacketTypeBytes \cup {MQTT_PACKET_TYPE_PUBLISH} } )
        => AllowedAddSucceeds

LabelsWithFlagBits ==
    { MQTT_PACKET_TYPE_PUBREL, MQTT_PACKET_TYPE_SUBSCRIBE, MQTT_PACKET_TYPE_UNSUBSCRIBE }

AllowedAddSucceedsUnderClearedLabelInSerializer ==
    ( /\ propIn.api = "serializer"
      /\ propIn.pOptionalMqttPacketType \notin
            { Hint(type) : type \in LabelsWithFlagBits \cup {MQTT_PACKET_TYPE_AUTH} } )
        => AllowedAddSucceeds

(* The allow list of the property serializer reads the hint byte as it is: *)
(* a PUBLISH byte with flag bits matches no label, and the allowed add is  *)
(* refused.                                                                *)
PublishWithFlagsRefusedInPropSerializer ==
    ( /\ FirstLegalAddThatFits
      /\ propIn.api = "prop_serializer"
      /\ ~propIn.pOptionalMqttPacketType.null
      /\ propIn.pOptionalMqttPacketType.type \div 16 = MQTT_PACKET_TYPE_PUBLISH \div 16
      /\ propIn.pOptionalMqttPacketType.type # MQTT_PACKET_TYPE_PUBLISH )
        => propLast.status = MQTTBadParameter

(* The labels PUBREL, SUBSCRIBE and UNSUBSCRIBE carry flag bits, a hint    *)
(* byte with its low nibble cleared matches none of them, and AUTH is no   *)
(* label of the packet serializer's switch.                                *)
FlaggedLabelOrAuthRefusedInSerializer ==
    ( /\ FirstLegalAddThatFits
      /\ propIn.api = "serializer"
      /\ propIn.pOptionalMqttPacketType \in
            { Hint(type) : type \in LabelsWithFlagBits \cup {MQTT_PACKET_TYPE_AUTH} } )
        => propLast.status = MQTTBadParameter

(* No label of either allow list sets the Will Delay Interval position:    *)
(* the add is refused under every hint.                                    *)
WillDelayRefusedUnderEveryHint ==
    WillDelayAddedUnderHint => propLast.status = MQTTBadParameter

AllowedAddUnderPublishWithFlags ==
    /\ FirstLegalAddThatFits
    /\ HintAdmits(LastProperty)
    /\ propIn.pOptionalMqttPacketType.type = 59

WillDelayAddedUnderConnect ==
    /\ WillDelayAddedUnderHint
    /\ propIn.pOptionalMqttPacketType.type = MQTT_PACKET_TYPE_CONNECT

(***************************************************************************)
(* The builder's buffer: bufferLength bytes at pBuffer.  A byte stored at  *)
(* an index at or behind bufferLength shows as memory behind the buffer.   *)
(***************************************************************************)
CurrentIndexWithinBuffer == propBuilder.currentIndex <= propBuilder.bufferLength

WritesWithinBuffer == Len(propBuilder.pBuffer.data) <= propBuilder.bufferLength

(* C30: after any sequence of adds with any argument values, currentIndex  *)
(* does not exceed bufferLength, and no add has stored a byte at an index  *)
(* at or behind bufferLength.                                              *)
C30_AddsStayWithinBuffer ==
    /\ CurrentIndexWithinBuffer
    /\ WritesWithinBuffer

(* The largest value variableLengthEncodedSize counts right: four encoded  *)
(* bytes.                                                                  *)
LargestFourByteValue == 128 * 128 * 128 * 128 - 1

SubscribeIdsAdded ==
    { propAdded[i].value : i \in { j \in 1..Len(propAdded) :
                                      propAdded[j].fn = "MQTTPropAdd_SubscribeId" } }

(* The part that holds: the adds stay within the buffer as long as no      *)
(* Subscription Identifier above 268,435,455 was added.                    *)
AddsStayWithinBufferUpToFourByteIds ==
    (\A id \in SubscribeIdsAdded : id <= LargestFourByteValue)
        => C30_AddsStayWithinBuffer

(* For a larger identifier the room test counts four bytes where five are  *)
(* written: the add is let through with five bytes of room, and then       *)
(* currentIndex moves by six.                                              *)
LargeSubscribeIdTakesSixBytes ==
    \A i \in 1..Len(propAdded) :
        ( /\ propAdded[i].fn = "MQTTPropAdd_SubscribeId"
          /\ propAdded[i].value > LargestFourByteValue )
        => LET end == IF i < Len(propAdded) THEN propAdded[i + 1].start
                      ELSE propBuilder.currentIndex
           IN /\ end - propAdded[i].start = 6
              /\ propAdded[i].start + 5 <= propBuilder.bufferLength

SubscribeIdWrittenPastBuffer ==
    /\ propLast.fn = "MQTTPropAdd_SubscribeId"
    /\ propLast.status = MQTTSuccess
    /\ propLast.value = 2147483647
    /\ propBuilder.currentIndex = propBuilder.bufferLength + 1
    /\ Len(propBuilder.pBuffer.data) = propBuilder.bufferLength + 1

LargestFourByteIdAddedAtEnd ==
    /\ propLast.fn = "MQTTPropAdd_SubscribeId"
    /\ propLast.status = MQTTSuccess
    /\ propLast.value = LargestFourByteValue
    /\ propBuilder.currentIndex = propBuilder.bufferLength

Init == VbiInit
Next == VbiNext
Spec == Init /\ [][Next]_vars

=============================================================================
